---------------------------- MODULE Spec2Model ----------------------------
(***************************************************************************)
(* A model of the CPC classification hierarchy builder and publisher of    *)
(* patstat-explorer:                                                       *)
(*                                                                         *)
(*   scripts/bigquery_migration/build_cpc_database.py  (symbol codec,      *)
(*       kind/parent assignment, the SQLite build)                         *)
(*   scripts/bigquery_migration/upload_cpc_hierarchy.py (title composer,   *)
(*       the publish to the warehouse)                                     *)
(*   app.py (session state and navigation of the dashboard)                *)
(*                                                                         *)
(* Text is modelled as a sequence of one-character strings, so that the    *)
(* slicing, padding and searching the code does on Python strings is done  *)
(* here character by character.                                            *)
(***************************************************************************)
EXTENDS Integers, Sequences, FiniteSets, TLC

VARIABLES
    \* ---- build_database ----
    pc,             \* position of build_database
    symbols,        \* the rows of the symbol list consumed so far (file order)
    prior,          \* the committed table before this build started
    db,             \* the committed table, as any other connection reads it
    pending,        \* rows written in the open transaction of the connection
    batch,          \* the rows waiting for the next executemany
    last_at_level,  \* level -> symbol last seen at that level
    rows_inserted,  \* the loop's counter
    error,          \* the exception that ended the build, or "none"
    \* ---- symbol codec, applied to one input ----
    cin,            \* the symbol handed to the codec
    cout,           \* the result of symbol_to_zeropad(cin), once computed
    cstate,         \* "ready" | "done"
    \* ---- build_title_full(symbol, lookup) ----
    lookup,         \* the lookup dict: key -> entry
    tsymbol,        \* the symbol whose title is built
    current,        \* the loop's cursor
    chain,          \* the titles collected so far
    visited,        \* the keys the loop has been at, in order
    tpc,            \* "loop" | "done"
    title_full,     \* the returned title, once tpc = "done"
    \* ---- a second run of build_database ----
    runs,           \* builds finished before the one in progress
    release,        \* the symbol list the finished build has read
    first,          \* the table the finished build has committed
    \* ---- determine_kind, applied row after row ----
    klevels,        \* the levels handed to determine_kind, in order
    kkinds,         \* the kinds it returned, in order
    \* ---- extract_titles, applied to one line of a title file ----
    eline,          \* the line read
    etitles,        \* the titles dict after the line
    estate,         \* "ready" | "done"
    \* ---- upload_cpc_hierarchy.main ----
    upc,            \* position of main
    dry_run,        \* args.dry_run
    table,          \* the rows of the local cpc table
    plookup,        \* the rows read_sqlite_database has fetched, in order
    bq_rows,        \* the rows prepared for the warehouse
    warehouse,      \* the rows of the external table
    warehouse0,     \* the rows of the external table before main ran
    clients,        \* warehouse clients created
    jobs,           \* load jobs submitted
    reported,       \* the row count printed, or -1
    uerror,         \* the exception that ended main, or "none"
    \* ---- the dashboard session ----
    session_state,  \* st.session_state: key -> value
    before,         \* st.session_state when the last call began
    called,         \* the function called last
    calls,          \* calls made so far
    reruns,         \* st.rerun() calls made by the last call
    query_id,       \* the argument of the last go_to_detail call
    client,         \* what get_bigquery_client gave the last main()
    rendered,       \* the page function main() called last
    page,           \* the page function that is running, or "idle"
    \* ---- the parent resolution of the build loop, on its own ----
    dsymbols,       \* the rows consumed so far
    dnodes,         \* the nodes derived from them
    dlast,          \* last_at_level
    \* ---- the analysis form of tip4patlibs_core ----
    ui,             \* AnalysisState and the traits of the WidgetFactory's widgets
    patstat_db,     \* the module's global db: None or the session
    analysis_results, \* the module's global analysis_results: key -> frame
    run_pc,         \* position of _on_run_click: "idle" | "queries"
    ended,          \* the callback that ended last, or "none"
    outcome,        \* how it ended: "returned" or the exception that left it
    events,         \* widget events handled so far
    region_before   \* state.region when the last step began

buildVars == <<pc, symbols, prior, db, pending, batch, last_at_level,
               rows_inserted, error>>
codecVars == <<cin, cout, cstate>>
titleVars == <<lookup, tsymbol, current, chain, visited, tpc, title_full>>
runVars == <<runs, release, first>>
kindVars == <<klevels, kkinds>>
extractVars == <<eline, etitles, estate>>
publishVars == <<upc, dry_run, table, plookup, bq_rows, warehouse, warehouse0,
                 clients, jobs, reported, uerror>>
sessionVars == <<session_state, before, called, calls, reruns, query_id, client,
                 rendered, page>>
branchVars == <<dsymbols, dnodes, dlast>>
formVars == <<ui, patstat_db, analysis_results, run_pc, ended, outcome, events,
              region_before>>
vars == <<buildVars, codecVars, titleVars, runVars, kindVars, extractVars,
          publishVars, sessionVars, branchVars, formVars>>

\* What the steps of one part of the program leave alone.
notBuild == <<codecVars, titleVars, kindVars, extractVars, publishVars, sessionVars, branchVars, formVars>>
notCodec == <<buildVars, runVars, titleVars, kindVars, extractVars, publishVars,
              sessionVars, branchVars, formVars>>
notTitle == <<buildVars, runVars, codecVars, kindVars, extractVars, publishVars,
              sessionVars, branchVars, formVars>>
notKind == <<buildVars, runVars, codecVars, titleVars, extractVars, publishVars,
             sessionVars, branchVars, formVars>>
notExtract == <<buildVars, runVars, codecVars, titleVars, kindVars, publishVars,
                sessionVars, branchVars, formVars>>
notPublish == <<buildVars, runVars, codecVars, titleVars, kindVars, extractVars,
                sessionVars, branchVars, formVars>>
notSession == <<buildVars, runVars, codecVars, titleVars, kindVars, extractVars,
                publishVars, branchVars, formVars>>
notBranch == <<buildVars, runVars, codecVars, titleVars, kindVars, extractVars,
               publishVars, sessionVars, formVars>>
notForm == <<buildVars, runVars, codecVars, titleVars, kindVars, extractVars,
             publishVars, sessionVars, branchVars>>

-----------------------------------------------------------------------------
(* Bounds of the model. *)

\* Rows of the symbol list one build reads, whatever their order.
MaxRows == 3
\* Rows of a symbol list in hierarchical sort order one build reads.
MaxOrderedRows == 7
\* Iterations of the title loop that are explored (the loop itself has no bound).
MaxAscent == 6

-----------------------------------------------------------------------------
(* Python string helpers, on sequences of characters. *)

Min(a, b) == IF a < b THEN a ELSE b

\* s[:n]
Prefix(s, n) == SubSeq(s, 1, Min(n, Len(s)))

\* s[a:b] for 0 <= a, 0 <= b
Slice(s, a, b) ==
    IF a >= Min(b, Len(s)) THEN <<>> ELSE SubSeq(s, a + 1, Min(b, Len(s)))

\* s[a:]
Suffix(s, a) == Slice(s, a, Len(s))

\* c in s
Contains(s, c) == \E k \in 1..Len(s) : s[k] = c

\* s.index(c), 0-based; only used where c is in s
IndexOf(s, c) == (CHOOSE k \in 1..Len(s) : s[k] = c /\ \A j \in 1..(k - 1) : s[j] # c) - 1

\* n copies of c
Repeat(c, n) == [k \in 1..n |-> c]

\* The characters str.strip() removes, int() skips and \s matches: those for
\* which str.isspace() is true.  A string of this module holds characters up
\* to U+00FF, and these are the twelve of them: tab, line feed, vertical tab,
\* form feed, carriage return, U+001C..U+001F, space, U+0085 and U+00A0.
Whitespace ==
    {"\t", "\n", "", "\f", "\r", "", "", "", "", " ",
     "", " "}

RECURSIVE LStrip(_)
LStrip(s) == IF s # <<>> /\ s[1] \in Whitespace THEN LStrip(Tail(s)) ELSE s

RECURSIVE RStrip(_)
RStrip(s) ==
    IF s # <<>> /\ s[Len(s)] \in Whitespace THEN RStrip(SubSeq(s, 1, Len(s) - 1)) ELSE s

\* s.strip()
Strip(s) == RStrip(LStrip(s))

\* s.zfill(w): zeros go after a leading sign
ZFill(s, w) ==
    IF Len(s) >= w THEN s
    ELSE IF s # <<>> /\ s[1] \in {"+", "-"}
         THEN <<s[1]>> \o Repeat("0", w - Len(s)) \o Tail(s)
         ELSE Repeat("0", w - Len(s)) \o s

\* s.ljust(w, c)
LJust(s, w, c) == IF Len(s) >= w THEN s ELSE s \o Repeat(c, w - Len(s))

Digit(d) == <<"0", "1", "2", "3", "4", "5", "6", "7", "8", "9">>[d + 1]

RECURSIVE NatStr(_)
NatStr(n) == IF n < 10 THEN <<Digit(n)>> ELSE NatStr(n \div 10) \o <<Digit(n % 10)>>

\* str(n) for an int
Str(n) == IF n < 0 THEN <<"-">> \o NatStr(-n) ELSE NatStr(n)

\* SQL NULL / Python None in a text column.
Null == <<"NULL">>

-----------------------------------------------------------------------------
(* The symbol codec and the kind of a level. *)

\* symbol.replace(" ", "")
symbol_to_short(symbol) == SelectSeq(symbol, LAMBDA c : c # " ")

\* symbol_to_zeropad with the subgroup padded on the left.
symbol_to_zeropad_left(symbol) ==
    LET short == symbol_to_short(symbol) IN
    IF ~Contains(short, "/") THEN short
    ELSE LET slash_pos    == IndexOf(short, "/")
             subclass     == Prefix(short, 4)
             group_str    == Slice(short, 4, slash_pos)
             subgroup_str == Suffix(short, slash_pos + 1)
             group_zp     == ZFill(group_str, 4)
             subgroup_zp  == ZFill(subgroup_str, 6)
         IN  subclass \o group_zp \o subgroup_zp

\* symbol_to_zeropad without the conversion to the short form.
symbol_to_zeropad_unshortened(symbol) ==
    LET short == symbol IN
    IF ~Contains(short, "/") THEN short
    ELSE LET slash_pos    == IndexOf(short, "/")
             subclass     == Prefix(short, 4)
             group_str    == Slice(short, 4, slash_pos)
             subgroup_str == Suffix(short, slash_pos + 1)
             group_zp     == ZFill(group_str, 4)
             subgroup_zp  == LJust(subgroup_str, 6, "0")
         IN  subclass \o group_zp \o subgroup_zp

symbol_to_zeropad(symbol) ==
    LET short == symbol_to_short(symbol) IN
    IF ~Contains(short, "/") THEN short
    ELSE LET slash_pos    == IndexOf(short, "/")
             subclass     == Prefix(short, 4)
             group_str    == Slice(short, 4, slash_pos)
             subgroup_str == Suffix(short, slash_pos + 1)
             group_zp     == ZFill(group_str, 4)
             subgroup_zp  == LJust(subgroup_str, 6, "0")
         IN  subclass \o group_zp \o subgroup_zp

\* determine_kind without the cap on the depth.
determine_kind_uncapped(level) ==
    IF level = 2 THEN <<"s">>
    ELSE IF level = 4 THEN <<"c">>
    ELSE IF level = 5 THEN <<"u">>
    ELSE IF level = 7 THEN <<"m">>
    ELSE LET depth == level - 7 IN Str(depth)

determine_kind(level) ==
    IF level = 2 THEN <<"s">>
    ELSE IF level = 4 THEN <<"c">>
    ELSE IF level = 5 THEN <<"u">>
    ELSE IF level = 7 THEN <<"m">>
    ELSE LET depth == level - 7 IN Str(Min(depth, 9))


-----------------------------------------------------------------------------
(* The release: rows of the symbol list and the parsed title list. *)

\* A decimal digit (the only ones among the characters up to U+00FF).
IsDigit(c) == \E d \in 0..9 : Digit(d) = c

\* The value of a digit string; the underscores between digits count nothing.
RECURSIVE DigitsValue(_, _)
DigitsValue(s, acc) ==
    IF s = <<>> THEN acc
    ELSE IF Head(s) = "_" THEN DigitsValue(Tail(s), acc)
    ELSE DigitsValue(Tail(s),
                     10 * acc + (CHOOSE d \in 0..9 : Digit(d) = Head(s)))

\* The whitespace int() skips around the number: that of str.strip() without
\* the separators U+001C..U+001F.
IntWhitespace == Whitespace \ {"", "", "", ""}

RECURSIVE IntStrip(_)
IntStrip(s) ==
    IF s # <<>> /\ s[1] \in IntWhitespace THEN IntStrip(Tail(s))
    ELSE IF s # <<>> /\ s[Len(s)] \in IntWhitespace
    THEN IntStrip(SubSeq(s, 1, Len(s) - 1))
    ELSE s

\* int(text): an optional sign and decimal digits, single underscores allowed
\* between two digits, surrounding whitespace ignored; anything else raises
\* ValueError (ok = FALSE).
ParseInt(text) ==
    LET t      == IntStrip(text)
        signed == t # <<>> /\ t[1] \in {"+", "-"}
        digits == IF signed THEN Tail(t) ELSE t
        ok     == /\ digits # <<>>
                  /\ \A k \in 1..Len(digits) :
                         \/ IsDigit(digits[k])
                         \/ /\ digits[k] = "_"
                            /\ k > 1
                            /\ k < Len(digits)
                            /\ IsDigit(digits[k - 1])
                            /\ IsDigit(digits[k + 1])
    IN  [ok  |-> ok,
         val |-> IF ok THEN (IF signed /\ t[1] = "-" THEN -1 ELSE 1) * DigitsValue(digits, 0)
                 ELSE 0]

sA      == <<"A">>
sA01    == <<"A", "0", "1">>
sA01B   == <<"A", "0", "1", "B">>
sG100   == <<"A", "0", "1", "B", "1", "/", "0", "0">>
sG102   == <<"A", "0", "1", "B", "1", "/", "0", "2">>
sG1020  == <<"A", "0", "1", "B", "1", "/", "0", "2", "0">>
sG104   == <<"A", "0", "1", "B", "1", "/", "0", "4">>
sG300   == <<"A", "0", "1", "B", "3", "/", "0", "0">>
sG302   == <<"A", "0", "1", "B", "3", "/", "0", "2">>
sA01C   == <<"A", "0", "1", "C">>
sCPC    == <<"C", "P", "C">>
\* The padded keys A01B0001000000 and A01B0001020000, written out.
kG100 == <<"A", "0", "1", "B", "0", "0", "0", "1", "0", "0", "0", "0", "0", "0">>
kG102 == <<"A", "0", "1", "B", "0", "0", "0", "1", "0", "2", "0", "0", "0", "0">>

Row(sym, lvl, na) ==
    [SYMBOL |-> sym, level |-> lvl, not_allocatable |-> na,
     additional_only |-> "FALSE", status |-> "published"]

\* The rows a symbol list may hold in this model: a section, a class, a
\* subclass, two main groups and their subgroups as a release lists them, and
\* rows a release is not meant to hold but the reader accepts: a second symbol
\* with the same padded key, a subclass code given the main-group level, a
\* level outside the known brackets, a level that is no integer, a class row
\* whose symbol is blank.
ReleaseRows ==
    { Row(sA,     <<"2">>, "FALSE"),
      Row(sA01,   <<"4">>, "FALSE"),
      Row(sA01B,  <<"5">>, "TRUE"),
      Row(sG100,  <<"7">>, "FALSE"),
      Row(sG102,  <<"8">>, "FALSE"),
      Row(sG104,  <<"9">>, "FALSE"),
      Row(sG300,  <<"7">>, "FALSE"),
      Row(sG302,  <<"8">>, "FALSE"),
      Row(sG1020, <<"9">>, "FALSE"),
      Row(sA01B,  <<"7">>, "FALSE"),
      Row(sG300,  <<"6">>, "FALSE"),
      Row(sA01C,  <<"x">>, "FALSE"),
      Row(<<" ">>, <<"4">>, "FALSE") }

\* The levels the hierarchy knows: section, class, subclass, main group, and
\* the subgroup depths below it.
KnownLevel(level) == level \in {2, 4, 5, 7} \/ level > 7

RowLevel(row) == ParseInt(row.level).val
RowShort(row) == symbol_to_short(Strip(row.SYMBOL))

\* The text of a symbol up to its "/" (subclass and main group).
GroupPart(short) ==
    IF Contains(short, "/") THEN Prefix(short, IndexOf(short, "/") + 1) ELSE short

\* Hierarchical sort order: the stream is the preorder of a tree.  The
\* nearest earlier row at a shallower level is the row's parent: one bracket
\* up, and carrying the row's section letter, class code, subclass code, or
\* (below the main group) its subclass and main group.
Ordered(stream) ==
    \A i \in 1..Len(stream) :
        LET lv  == RowLevel(stream[i])
            sh  == RowShort(stream[i])
            up  == {j \in 1..(i - 1) : RowLevel(stream[j]) < lv}
            j   == CHOOSE m \in up : \A n \in up : n <= m
            plv == RowLevel(stream[j])
            psh == RowShort(stream[j])
        IN  /\ \A k \in 1..i : ParseInt(stream[k].level).ok
            /\ KnownLevel(lv)
            /\ \/ lv = 2
               \/ /\ up # {}
                  /\ \/ lv = 4 /\ plv = 2 /\ psh = Prefix(sh, 1)
                     \/ lv = 5 /\ plv = 4 /\ psh = Prefix(sh, 3)
                     \/ lv = 7 /\ plv = 5 /\ psh = Prefix(sh, 4)
                     \/ lv = 8 /\ plv = 7 /\ GroupPart(psh) = GroupPart(sh)
                     \/ lv > 8 /\ plv = lv - 1 /\ GroupPart(psh) = GroupPart(sh)

\* The dict extract_titles returns for the release: symbol -> title.
tSect  == <<"S">>
tMain  == <<"M">>
tSub   == <<"G">>
titles ==
    (sA :> tSect) @@ (sG100 :> tMain) @@ (sG102 :> tSub)

\* titles.get(k), None when absent
TitlesGet(k) == IF k \in DOMAIN titles THEN titles[k] ELSE Null

\* a or b, for text values (None and "" are falsy)
OrElse(a, b) == IF a = Null \/ a = <<>> THEN b ELSE a

-----------------------------------------------------------------------------
(* build_database: the derivation of one table row from one input row. *)

\* 'Cooperative Patent Classification'
RootTitle ==
    <<"C", "o", "o", "p", "e", "r", "a", "t", "i", "v", "e", " ", "P",
       "a", "t", "e", "n", "t", " ", "C", "l", "a", "s", "s", "i", "f",
       "i", "c", "a", "t", "i", "o", "n">>

\* The root row of the table.
root_node ==
    [symbol |-> sCPC, kind |-> <<"r">>, parent |-> <<>>, level |-> 1,
     symbol_short |-> sCPC, parent_short |-> Null, symbol_patstat |-> Null,
     title_en |-> RootTitle,
     not_allocatable |-> 0, additional_only |-> 0, status |-> "NULL"]

\* What an operation that raises gives in place of its result.
Raised(exc) == [raised |-> exc]

\* symbol_short[0] as the parent of a class: IndexError on the empty text.
FirstChar(symbol_short) ==
    IF symbol_short = <<>> THEN Raised("IndexError")
    ELSE [zp |-> <<symbol_short[1]>>, short |-> <<symbol_short[1]>>]

\* last_at_level.get(level, default)
LastGet(lal, level, default) == IF level \in DOMAIN lal THEN lal[level] ELSE default

\* assign_parent with the class cut one character short.
assign_parent_short_class(level, symbol_short, lal) ==
    IF level = 2 THEN [zp |-> sCPC, short |-> sCPC]
    ELSE IF level = 4 THEN FirstChar(symbol_short)
    ELSE IF level = 5 THEN [zp |-> Prefix(symbol_short, 2), short |-> Prefix(symbol_short, 2)]
    ELSE IF level = 7 THEN [zp |-> Prefix(symbol_short, 4), short |-> Prefix(symbol_short, 4)]
    ELSE LET parent_symbol == LastGet(lal, level - 1, Prefix(symbol_short, 4))
         IN  [zp |-> symbol_to_zeropad(parent_symbol),
              short |-> symbol_to_short(parent_symbol)]

\* assign_parent with the subclass given the main group's slice.
assign_parent_long_subclass(level, symbol_short, lal) ==
    IF level = 2 THEN [zp |-> sCPC, short |-> sCPC]
    ELSE IF level = 4 THEN FirstChar(symbol_short)
    ELSE IF level = 5 THEN [zp |-> Prefix(symbol_short, 4), short |-> Prefix(symbol_short, 4)]
    ELSE IF level = 7 THEN [zp |-> Prefix(symbol_short, 4), short |-> Prefix(symbol_short, 4)]
    ELSE LET parent_symbol == LastGet(lal, level - 1, Prefix(symbol_short, 4))
         IN  [zp |-> symbol_to_zeropad(parent_symbol),
              short |-> symbol_to_short(parent_symbol)]

\* assign_parent with the subgroup looked up at its own level.
assign_parent_same_level(level, symbol_short, lal) ==
    IF level = 2 THEN [zp |-> sCPC, short |-> sCPC]
    ELSE IF level = 4 THEN FirstChar(symbol_short)
    ELSE IF level = 5 THEN [zp |-> Prefix(symbol_short, 3), short |-> Prefix(symbol_short, 3)]
    ELSE IF level = 7 THEN [zp |-> Prefix(symbol_short, 4), short |-> Prefix(symbol_short, 4)]
    ELSE LET parent_symbol == LastGet(lal, level, Prefix(symbol_short, 4))
         IN  [zp |-> symbol_to_zeropad(parent_symbol),
              short |-> symbol_to_short(parent_symbol)]

\* assign_parent with the class code as the default of the subgroup lookup.
assign_parent_class_default(level, symbol_short, lal) ==
    IF level = 2 THEN [zp |-> sCPC, short |-> sCPC]
    ELSE IF level = 4 THEN FirstChar(symbol_short)
    ELSE IF level = 5 THEN [zp |-> Prefix(symbol_short, 3), short |-> Prefix(symbol_short, 3)]
    ELSE IF level = 7 THEN [zp |-> Prefix(symbol_short, 4), short |-> Prefix(symbol_short, 4)]
    ELSE LET parent_symbol == LastGet(lal, level - 1, Prefix(symbol_short, 3))
         IN  [zp |-> symbol_to_zeropad(parent_symbol),
              short |-> symbol_to_short(parent_symbol)]

\* The parent of a row: [zp, short].
assign_parent(level, symbol_short, lal) ==
    IF level = 2 THEN [zp |-> sCPC, short |-> sCPC]
    ELSE IF level = 4 THEN FirstChar(symbol_short)
    ELSE IF level = 5 THEN [zp |-> Prefix(symbol_short, 3), short |-> Prefix(symbol_short, 3)]
    ELSE IF level = 7 THEN [zp |-> Prefix(symbol_short, 4), short |-> Prefix(symbol_short, 4)]
    ELSE LET parent_symbol == LastGet(lal, level - 1, Prefix(symbol_short, 4))
         IN  [zp |-> symbol_to_zeropad(parent_symbol),
              short |-> symbol_to_short(parent_symbol)]

\* The tuple appended to the batch for an input row whose level is `level`.
row_node(row, level, lal) ==
    LET symbol       == Strip(row.SYMBOL)
        symbol_short == symbol_to_short(symbol)
        par          == assign_parent(level, symbol_short, lal)
    IN  IF "raised" \in DOMAIN par THEN par ELSE
        [symbol          |-> symbol_to_zeropad(symbol),
         kind            |-> determine_kind(level),
         parent          |-> par.zp,
         level           |-> level,
         symbol_short    |-> symbol_short,
         parent_short    |-> par.short,
         symbol_patstat  |-> IF Contains(symbol, "/") THEN symbol ELSE Null,
         title_en        |-> OrElse(OrElse(TitlesGet(symbol_short), TitlesGet(symbol)), <<>>),
         not_allocatable |-> IF row.not_allocatable = "TRUE" THEN 1 ELSE 0,
         additional_only |-> IF row.additional_only = "TRUE" THEN 1 ELSE 0,
         status          |-> row.status]

\* record_last that keeps the symbol first seen at a level.
record_last_keeps_first(lal, level, symbol) ==
    [l \in DOMAIN lal \cup {level} |-> IF l \in DOMAIN lal THEN lal[l] ELSE symbol]

\* last_at_level[level] = symbol
record_last(lal, level, symbol) ==
    [l \in DOMAIN lal \cup {level} |-> IF l = level THEN symbol ELSE lal[l]]

KeysOf(rows) == {rows[k].symbol : k \in DOMAIN rows}

\* executemany on a table whose symbol column is no key.
executemany_no_key(rows, b) == [ok |-> TRUE, rows |-> rows \o b]

\* cur.executemany(INSERT ..., b) on a table holding `rows`: the rows go in
\* one by one, and the first whose symbol is already a key of the table
\* raises IntegrityError (symbol TEXT PRIMARY KEY).
RECURSIVE executemany(_, _)
executemany(rows, b) ==
    IF b = <<>> THEN [ok |-> TRUE, rows |-> rows]
    ELSE IF Head(b).symbol \in KeysOf(rows) THEN [ok |-> FALSE, rows |-> rows]
    ELSE executemany(Append(rows, Head(b)), Tail(b))

\* The batch size of the loop: len(batch) >= 10000.
FullBatch == 10000

\* The batch size the loop is given where the claim is about any batch size.
BatchSize == 2

\* The nodes the loop derives from a symbol list, row by row in one pass, or
\* the exception the loop raises at the first row it cannot derive.
RECURSIVE DeriveAll(_, _, _)
DeriveAll(stream, lal, acc) ==
    IF stream = <<>> THEN acc
    ELSE LET row  == Head(stream)
             lv   == ParseInt(row.level)
             node == row_node(row, lv.val, lal)
         IN  IF ~lv.ok THEN Raised("ValueError")
             ELSE IF "raised" \in DOMAIN node THEN node
             ELSE DeriveAll(Tail(stream), record_last(lal, lv.val, Strip(row.SYMBOL)),
                            Append(acc, node))

NoTable == [exists |-> FALSE, rows |-> <<>>]

\* A table an earlier build of a one-section release has left.
EarlierTable ==
    [exists |-> TRUE,
     rows   |-> <<root_node, row_node(Row(sA, <<"2">>, "FALSE"), 2, <<>>)>>]


-----------------------------------------------------------------------------
(* build_database, step by step.  `db` is what another connection reads:   *)
(* DROP TABLE and CREATE TABLE run outside a transaction and are committed *)
(* at once; the INSERTs open a transaction whose rows (`pending`) become   *)
(* visible only at conn.commit(), and are discarded when the build raises. *)

BuildInit ==
    /\ pc = "start"
    /\ symbols = <<>>
    /\ db \in {NoTable, EarlierTable}
    /\ prior = db
    /\ pending = <<>>
    /\ batch = <<>>
    /\ last_at_level = <<>>
    /\ rows_inserted = 0
    /\ error = "none"

\* The files of a release directory.
csv_file  == "CPCSymbolList202601.csv"
zip_file  == "CPCSymbolList202601.zip"
title_zip == "CPCTitleList202601.zip"
Artifacts == {csv_file, zip_file, title_zip}

\* extract_or_read_csv finds the symbol list: csv_file.exists() or
\* zip_file.exists()
symbol_list_found(present) == csv_file \in present \/ zip_file \in present

\* extract_titles finds the title list: zip_file.exists()
title_list_found(present) == title_zip \in present

\* extract_or_read_csv, extract_titles, sqlite3.connect
ReadRelease ==
    /\ pc = "start"
    /\ \E present \in SUBSET Artifacts :
         symbol_list_found(present) /\ title_list_found(present)
    /\ pc' = "connected"
    /\ UNCHANGED <<symbols, prior, db, pending, batch, last_at_level, rows_inserted, error>>
    /\ UNCHANGED <<runVars, notBuild>>

\* cur.execute("DROP TABLE IF EXISTS cpc")
DropTable ==
    /\ pc = "connected"
    /\ db' = NoTable
    /\ pc' = "dropped"
    /\ UNCHANGED <<symbols, prior, pending, batch, last_at_level, rows_inserted, error>>
    /\ UNCHANGED <<runVars, notBuild>>

\* cur.execute("CREATE TABLE cpc (...)")
CreateTable ==
    /\ pc = "dropped"
    /\ db' = [exists |-> TRUE, rows |-> <<>>]
    /\ pc' = "created"
    /\ UNCHANGED <<symbols, prior, pending, batch, last_at_level, rows_inserted, error>>
    /\ UNCHANGED <<runVars, notBuild>>

\* InsertRoot on top of the rows the table held before the build.
InsertRoot_onto_prior ==
    /\ pc = "created"
    /\ pending' = prior.rows \o <<root_node>>
    /\ pc' = "loop"
    /\ UNCHANGED <<symbols, prior, db, batch, last_at_level, rows_inserted, error>>
    /\ UNCHANGED <<runVars, notBuild>>

\* cur.execute("INSERT INTO cpc ... VALUES ('CPC', 'r', '', 1, ...)")
InsertRoot ==
    /\ pc = "created"
    /\ pending' = <<root_node>>
    /\ pc' = "loop"
    /\ UNCHANGED <<symbols, prior, db, batch, last_at_level, rows_inserted, error>>
    /\ UNCHANGED <<runVars, notBuild>>

\* The build raises: the connection is dropped with its transaction open.
Raise(exc) ==
    /\ pc' = "failed"
    /\ error' = exc
    /\ pending' = <<>>
    /\ batch' = <<>>

\* Releases of at most this many rows are built a second time.
MaxRerunRows == 2

\* extract_or_read_csv or extract_titles raises FileNotFoundError: the
\* database has not been opened.
ReadReleaseMissing_after_drop ==
    /\ pc = "start"
    /\ runs = 0
    /\ \E present \in SUBSET Artifacts :
         /\ ~(symbol_list_found(present) /\ title_list_found(present))
         /\ Raise(IF ~symbol_list_found(present)
                  THEN "FileNotFoundError: CPCSymbolList202601.csv or .zip"
                  ELSE "FileNotFoundError: CPCTitleList202601.zip")
    /\ db' = NoTable
    /\ UNCHANGED <<symbols, prior, last_at_level, rows_inserted>>
    /\ UNCHANGED <<runVars, notBuild>>

ReadReleaseMissing ==
    /\ pc = "start"
    /\ runs = 0
    /\ \E present \in SUBSET Artifacts :
         /\ ~(symbol_list_found(present) /\ title_list_found(present))
         /\ Raise(IF ~symbol_list_found(present)
                  THEN "FileNotFoundError: CPCSymbolList202601.csv or .zip"
                  ELSE "FileNotFoundError: CPCTitleList202601.zip")
    /\ UNCHANGED <<symbols, prior, db, last_at_level, rows_inserted>>
    /\ UNCHANGED <<runVars, notBuild>>

\* The next row of the symbol list: any row on the first reading, the row
\* read the first time when the unchanged release is read again.
NextRow(row) ==
    IF runs = 0 THEN TRUE
    ELSE Len(symbols) < Len(release) /\ row = release[Len(symbols) + 1]

\* The symbol list has no further row.
EndOfList == IF runs = 0 THEN TRUE ELSE Len(symbols) = Len(release)

\* The loop step with the full batch cleared without being inserted.
ProcessRowAt_flush_lost(size) ==
    /\ pc = "loop"
    /\ \E row \in ReleaseRows :
         LET lv == ParseInt(row.level) IN
         /\ NextRow(row)
         /\ IF Len(symbols) < MaxRows THEN TRUE
            ELSE Len(symbols) < MaxOrderedRows /\ Ordered(Append(symbols, row))
         /\ symbols' = Append(symbols, row)
         /\ IF ~lv.ok
            THEN /\ Raise("ValueError")
                 /\ UNCHANGED <<last_at_level, rows_inserted>>
            ELSE LET node   == row_node(row, lv.val, last_at_level)
                     batch1 == Append(batch, node)
                     ins    == executemany(pending, batch1)
                 IN  IF "raised" \in DOMAIN node
                     THEN /\ Raise(node.raised)
                          /\ UNCHANGED <<last_at_level, rows_inserted>>
                     ELSE
                     /\ last_at_level' = record_last(last_at_level, lv.val, Strip(row.SYMBOL))
                     /\ rows_inserted' = rows_inserted + 1
                     /\ IF Len(batch1) >= size
                        THEN IF ins.ok
                             THEN /\ pending' = pending
                                  /\ batch' = <<>>
                                  /\ UNCHANGED <<pc, error>>
                             ELSE Raise("IntegrityError")
                        ELSE /\ batch' = batch1
                             /\ UNCHANGED <<pc, pending, error>>
    /\ UNCHANGED <<prior, db>>
    /\ UNCHANGED <<runVars, notBuild>>

\* One iteration of `for row in symbols`, the batch being full at `size` rows.
ProcessRowAt(size) ==
    /\ pc = "loop"
    /\ \E row \in ReleaseRows :
         LET lv == ParseInt(row.level) IN
         /\ NextRow(row)
         /\ IF Len(symbols) < MaxRows THEN TRUE
            ELSE Len(symbols) < MaxOrderedRows /\ Ordered(Append(symbols, row))
         /\ symbols' = Append(symbols, row)
         /\ IF ~lv.ok
            THEN /\ Raise("ValueError")
                 /\ UNCHANGED <<last_at_level, rows_inserted>>
            ELSE LET node   == row_node(row, lv.val, last_at_level)
                     batch1 == Append(batch, node)
                     ins    == executemany(pending, batch1)
                 IN  IF "raised" \in DOMAIN node
                     THEN /\ Raise(node.raised)
                          /\ UNCHANGED <<last_at_level, rows_inserted>>
                     ELSE
                     /\ last_at_level' = record_last(last_at_level, lv.val, Strip(row.SYMBOL))
                     /\ rows_inserted' = rows_inserted + 1
                     /\ IF Len(batch1) >= size
                        THEN IF ins.ok
                             THEN /\ pending' = ins.rows
                                  /\ batch' = <<>>
                                  /\ UNCHANGED <<pc, error>>
                             ELSE Raise("IntegrityError")
                        ELSE /\ batch' = batch1
                             /\ UNCHANGED <<pc, pending, error>>
    /\ UNCHANGED <<prior, db>>
    /\ UNCHANGED <<runVars, notBuild>>

\* One iteration of `for row in symbols`.
ProcessRow == ProcessRowAt(FullBatch)

\* The iteration of a build whose batch size is BatchSize.
ProcessRowBatched == ProcessRowAt(BatchSize)

\* Finish without the insert of the remaining batch.
Finish_without_remaining ==
    /\ pc = "loop"
    /\ EndOfList
    /\ db' = [exists |-> TRUE, rows |-> pending]
    /\ pending' = <<>>
    /\ batch' = <<>>
    /\ pc' = "done"
    /\ UNCHANGED <<symbols, prior, last_at_level, rows_inserted, error>>
    /\ UNCHANGED <<runVars, notBuild>>

\* After the loop: insert the remaining batch, create the indices, commit.
Finish ==
    /\ pc = "loop"
    /\ EndOfList
    /\ LET ins == executemany(pending, batch) IN
         IF ins.ok
         THEN /\ db' = [exists |-> TRUE, rows |-> ins.rows]
              /\ pending' = <<>>
              /\ batch' = <<>>
              /\ pc' = "done"
              /\ UNCHANGED error
         ELSE /\ Raise("IntegrityError")
              /\ UNCHANGED db
    /\ UNCHANGED <<symbols, prior, last_at_level, rows_inserted>>
    /\ UNCHANGED <<runVars, notBuild>>

\* build_database is started again on the unchanged release directory, over
\* the database the finished build has left.
Rerun ==
    /\ pc = "done"
    /\ runs = 0
    /\ Len(symbols) <= MaxRerunRows
    /\ runs' = 1
    /\ release' = symbols
    /\ first' = db
    /\ prior' = db
    /\ pc' = "start"
    /\ symbols' = <<>>
    /\ last_at_level' = <<>>
    /\ rows_inserted' = 0
    /\ UNCHANGED <<db, pending, batch, error>>
    /\ UNCHANGED notBuild

\* The parts of the program at rest.
BuildIdle ==
    /\ pc = "idle"
    /\ symbols = <<>>
    /\ db = NoTable
    /\ prior = NoTable
    /\ pending = <<>>
    /\ batch = <<>>
    /\ last_at_level = <<>>
    /\ rows_inserted = 0
    /\ error = "none"

CodecIdle ==
    /\ cin = <<>>
    /\ cout = <<>>
    /\ cstate = "idle"

TitleIdle ==
    /\ lookup = <<>>
    /\ tsymbol = <<>>
    /\ current = <<>>
    /\ chain = <<>>
    /\ visited = <<>>
    /\ tpc = "idle"
    /\ title_full = <<>>

\* No build has finished yet.
RunIdle ==
    /\ runs = 0
    /\ release = <<>>
    /\ first = NoTable

KindIdle ==
    /\ klevels = <<>>
    /\ kkinds = <<>>

ExtractIdle ==
    /\ eline = <<>>
    /\ etitles = <<>>
    /\ estate = "idle"

PublishIdle ==
    /\ upc = "idle"
    /\ dry_run = FALSE
    /\ table = NoTable
    /\ plookup = <<>>
    /\ bq_rows = <<>>
    /\ warehouse = <<>>
    /\ warehouse0 = <<>>
    /\ clients = 0
    /\ jobs = 0
    /\ reported = -1
    /\ uerror = "none"

FormIdle ==
    /\ ui = <<>>
    /\ patstat_db = <<>>
    /\ analysis_results = <<>>
    /\ run_pc = "idle"
    /\ ended = "none"
    /\ outcome = "returned"
    /\ events = 0
    /\ region_before = <<>>

BranchIdle ==
    /\ dsymbols = <<>>
    /\ dnodes = <<>>
    /\ dlast = <<>>

SessionIdle ==
    /\ session_state = <<>>
    /\ before = <<>>
    /\ called = "idle"
    /\ calls = 0
    /\ reruns = 0
    /\ query_id = <<>>
    /\ client = "unset"
    /\ rendered = "none"
    /\ page = "idle"

-----------------------------------------------------------------------------
(* symbol_to_zeropad applied to one symbol. *)

\* Digits of a group and of a subgroup in the codec's inputs.
MaxGroupLen == 5
MaxSubgroupLen == 7

DigitStrings(digits, maxlen) == UNION {[1..n -> digits] : n \in 0..maxlen}

\* Symbols handed to the codec: a subclass, a group and a subgroup, in the
\* short form and in the space-padded form; and texts of other shapes.
CodecInputs ==
    { sA01B \o pad \o g \o <<"/">> \o sg :
        pad \in {<<>>, <<" ", " ">>},
        g \in DigitStrings({"0", "1"}, MaxGroupLen),
        sg \in DigitStrings({"0", "2"}, MaxSubgroupLen) }
    \cup { <<>>, sA, sA01, sA01B, <<"A", " ", "0", "1">>, <<" ", "A", "0", "1", "B", " ">>,
           <<"A", "/", "1">>, <<"A", "0", "1", "/", "1">>,
           <<"A", "0", "1", "B", "-", "1", "/", "2">>,
           <<"A", "0", "1", "B", "1", "/", "2", "/", "3">> }

CodecInit ==
    /\ cin \in CodecInputs
    /\ cout = <<>>
    /\ cstate = "ready"

\* cout = symbol_to_zeropad(cin)
Convert ==
    /\ cstate = "ready"
    /\ cout' = symbol_to_zeropad(cin)
    /\ cstate' = "done"
    /\ UNCHANGED <<cin, notCodec>>

InitCodec ==
    /\ BuildIdle /\ RunIdle /\ CodecInit /\ TitleIdle
    /\ KindIdle /\ ExtractIdle /\ PublishIdle /\ SessionIdle /\ BranchIdle /\ FormIdle

NextCodec == Convert

SpecCodec == InitCodec /\ [][NextCodec]_vars

-----------------------------------------------------------------------------
(* determine_kind applied to the level of one row after another, as the    *)
(* build loop calls it.                                                    *)

\* Rows whose kind is determined.
MaxKindRows == 2
\* The deepest level a row carries.
MaxLevel == 20

KindInit ==
    /\ klevels = <<>>
    /\ kkinds = <<>>

\* kind = determine_kind(level), for the next row
DetermineKind ==
    /\ Len(klevels) < MaxKindRows
    /\ \E level \in 0..MaxLevel :
         /\ klevels' = Append(klevels, level)
         /\ kkinds' = Append(kkinds, determine_kind(level))
    /\ UNCHANGED notKind

InitKind ==
    /\ BuildIdle /\ RunIdle /\ CodecIdle /\ TitleIdle
    /\ KindInit /\ ExtractIdle /\ PublishIdle /\ SessionIdle /\ BranchIdle /\ FormIdle

NextKind == DetermineKind

SpecKind == InitKind /\ [][NextKind]_vars

-----------------------------------------------------------------------------
(* extract_titles applied to one line of a title file. *)

\* Characters of the title text of a line.
MaxTitleLen == 6

\* line.rstrip("\n\r")
RECURSIVE RStripNewline(_)
RStripNewline(s) ==
    IF s # <<>> /\ s[Len(s)] \in {"\n", "\r"}
    THEN RStripNewline(SubSeq(s, 1, Len(s) - 1)) ELSE s

\* s.split(sep)
RECURSIVE Split(_, _)
Split(s, sep) ==
    IF ~Contains(s, sep) THEN <<s>>
    ELSE <<Prefix(s, IndexOf(s, sep))>> \o Split(Suffix(s, IndexOf(s, sep) + 1), sep)

\* re.sub(r"\{[^}]*\}", "", t): from the left, each "{" with a "}" after it
\* is removed together with the text up to the first such "}".
RECURSIVE RemoveBraced(_)
RemoveBraced(t) ==
    IF t = <<>> THEN <<>>
    ELSE IF t[1] = "{" /\ Contains(t, "}")
         THEN RemoveBraced(Suffix(t, IndexOf(t, "}") + 1))
         ELSE <<t[1]>> \o RemoveBraced(Tail(t))

\* re.sub(r"\s+", " ", t)
RECURSIVE CollapseSpace(_)
CollapseSpace(t) ==
    IF t = <<>> THEN <<>>
    ELSE IF t[1] \in Whitespace THEN <<" ">> \o CollapseSpace(LStrip(t))
    ELSE <<t[1]>> \o CollapseSpace(Tail(t))

\* The title stored for the last field of a line.
normalize_title(field) ==
    LET title  == Strip(field)
        title1 == Strip(RemoveBraced(title))
    IN  Strip(CollapseSpace(title1))

\* The titles dict after one more line of a title file.
extract_line(dict, text) ==
    LET line  == RStripNewline(text)
        parts == Split(line, "\t")
    IN  IF line = <<>> THEN dict
        ELSE IF Len(parts) >= 2
             THEN (Strip(parts[1]) :> normalize_title(parts[Len(parts)])) @@ dict
             ELSE dict

\* The title texts of a line: words, spaces and braces.
TitleTexts == UNION {[1..n -> {"a", " ", "{", "}"}] : n \in 0..MaxTitleLen}

\* The lines of a title file: SYMBOL<tab>TITLE with every title text; and an
\* empty line, a line of one field, a line with the level between symbol
\* and title, a line that ends with "\r\n", a line with a form feed around
\* the symbol and form feed, vertical tab and U+00A0 in the title.
TitleLines ==
    { sA01B \o <<"\t">> \o t : t \in TitleTexts }
    \cup { <<>>, <<"\n">>, sA01B,
           sA01B \o <<"\t", "5", "\t", "a", " ", " ", "{", "a", "}">>,
           <<" ">> \o sA01B \o <<" ", "\t", "a", "\t", "a", " ", "\r", "\n">>,
           <<"\f">> \o sA01B \o <<"\f", "\t", "\f", "a", " ", "", "a", "\f">> }

ExtractInit ==
    /\ eline \in TitleLines
    /\ etitles = <<>>
    /\ estate = "ready"

\* One iteration of `for line in text`.
ExtractLine ==
    /\ estate = "ready"
    /\ etitles' = extract_line(etitles, eline)
    /\ estate' = "done"
    /\ UNCHANGED <<eline, notExtract>>

InitExtract ==
    /\ BuildIdle /\ RunIdle /\ CodecIdle /\ TitleIdle
    /\ KindIdle /\ ExtractInit /\ PublishIdle /\ SessionIdle /\ BranchIdle /\ FormIdle

NextExtract == ExtractLine

SpecExtract == InitExtract /\ [][NextExtract]_vars

-----------------------------------------------------------------------------
(* build_title_full(symbol, lookup), one loop iteration at a time. *)

\* from_level: int = 7
FromLevel == 7

kTitleA01B == <<"U">>
kTitleG100 == <<"M">>
kTitleG102 == <<"G">>

LookupKeys == {sA01B, kG100, kG102}

TitleOfKey(k) ==
    IF k = sA01B THEN kTitleA01B ELSE IF k = kG100 THEN kTitleG100 ELSE kTitleG102

\* The entries a key may have: any level around the floor, any parent
\* (a key of the table or not, itself included), a title or none.
EntriesOf(k) ==
    [level : {5, 7, 8}, parent : LookupKeys \cup {sCPC}, title_en : {<<>>, TitleOfKey(k)}]

\* The lookup dicts: every table over every subset of the keys.
Lookups ==
    UNION { { f \in [D -> UNION {EntriesOf(k) : k \in D}] : \A k \in D : f[k] \in EntriesOf(k) } :
            D \in SUBSET LookupKeys }

TitleInit ==
    /\ lookup \in Lookups
    /\ tsymbol \in LookupKeys
    /\ current = <<>>
    /\ chain = <<>>
    /\ visited = <<>>
    /\ tpc = "ready"
    /\ title_full = <<>>

\* chain = []; current = symbol
TitleEnter ==
    /\ tpc = "ready"
    /\ chain' = <<>>
    /\ current' = tsymbol
    /\ tpc' = "loop"
    /\ UNCHANGED <<lookup, tsymbol, visited, title_full, notTitle>>

\* if entry["title_en"]
Truthy(text) == text # Null /\ text # <<>>

\* One iteration of `while current in lookup` that does not break.
TitleStep ==
    /\ tpc = "loop"
    /\ Len(visited) < MaxAscent
    /\ current \in DOMAIN lookup
    /\ lookup[current].level >= FromLevel
    /\ chain' = IF Truthy(lookup[current].title_en)
                THEN Append(chain, lookup[current].title_en) ELSE chain
    /\ visited' = Append(visited, current)
    /\ current' = lookup[current].parent
    /\ UNCHANGED <<lookup, tsymbol, tpc, title_full, notTitle>>

\* chain.reverse()
Reverse(seq) == [k \in 1..Len(seq) |-> seq[Len(seq) + 1 - k]]

\* sep.join(parts)
RECURSIVE Join(_, _)
Join(sep, parts) ==
    IF parts = <<>> THEN <<>>
    ELSE IF Len(parts) = 1 THEN parts[1]
    ELSE parts[1] \o sep \o Join(sep, Tail(parts))

Separator == <<" ", ">", " ">>

\* title_result without chain.reverse().
title_result_unreversed(ch, symbol, lk) ==
    IF ch # <<>> THEN Join(Separator, ch)
    ELSE IF symbol \in DOMAIN lk THEN lk[symbol].title_en ELSE <<>>

\* build_title_full's return value for the chain collected.
title_result(ch, symbol, lk) ==
    IF ch # <<>> THEN Join(Separator, Reverse(ch))
    ELSE IF symbol \in DOMAIN lk THEN lk[symbol].title_en ELSE <<>>

\* The loop ends (current is no key, or the entry is above the floor) and
\* the function returns.
TitleReturn ==
    /\ tpc = "loop"
    /\ IF current \in DOMAIN lookup THEN lookup[current].level < FromLevel ELSE TRUE
    /\ title_full' = title_result(chain, tsymbol, lookup)
    /\ tpc' = "done"
    /\ UNCHANGED <<lookup, tsymbol, current, chain, visited, notTitle>>

InitTitle ==
    /\ BuildIdle /\ RunIdle /\ CodecIdle /\ TitleInit
    /\ KindIdle /\ ExtractIdle /\ PublishIdle /\ SessionIdle /\ BranchIdle /\ FormIdle

NextTitle ==
    \/ TitleEnter
    \/ TitleStep
    \/ TitleReturn

SpecTitle == InitTitle /\ [][NextTitle]_vars

-----------------------------------------------------------------------------
(* upload_cpc_hierarchy.main: read the local table, prepare the rows, and   *)
(* load them into the external table (or only report, on a dry run).       *)

\* Rows of the release whose table is published.
MaxPublishRows == 5

\* A release in hierarchical sort order.
PublishStream ==
    << Row(sA, <<"2">>, "FALSE"), Row(sA01, <<"4">>, "FALSE"),
       Row(sA01B, <<"5">>, "TRUE"), Row(sG100, <<"7">>, "FALSE"),
       Row(sG102, <<"8">>, "FALSE"), Row(sG104, <<"9">>, "FALSE"),
       Row(sG300, <<"7">>, "FALSE"), Row(sG302, <<"8">>, "FALSE") >>

\* What a build can have left at db_path: the table of a release (the root
\* row, then one row per symbol), the empty table of a failed build, or no
\* table at all.
LocalTables ==
    { [exists |-> TRUE,
       rows   |-> <<root_node>> \o DeriveAll(SubSeq(PublishStream, 1, n), <<>>, <<>>)] :
        n \in 0..Min(MaxPublishRows, Len(PublishStream)) }
    \cup { [exists |-> TRUE, rows |-> <<>>], NoTable }

\* What the external table holds from an earlier publish.
StaleRows ==
    << [symbol |-> <<"Z">>, symbol_short |-> <<"Z">>, symbol_patstat |-> Null,
        kind |-> <<"s">>, level |-> 2, parent |-> sCPC, parent_short |-> sCPC,
        title_en |-> <<>>, title_full |-> <<>>, not_allocatable |-> FALSE,
        additional_only |-> FALSE, status |-> "published"] >>

PublishInit ==
    /\ upc = "start"
    /\ dry_run \in BOOLEAN
    /\ table \in LocalTables
    /\ plookup = <<>>
    /\ bq_rows = <<>>
    /\ warehouse \in {<<>>, StaleRows}
    /\ warehouse0 = warehouse
    /\ clients = 0
    /\ jobs = 0
    /\ reported = -1
    /\ uerror = "none"

\* There is no file at db_path (sys.exit(1)), or the file holds no cpc
\* table (the SELECT raises).
NoDatabase ==
    /\ upc = "start"
    /\ ~table.exists
    /\ upc' = "failed"
    /\ \E file \in BOOLEAN :
         uerror' = IF file THEN "OperationalError" ELSE "SystemExit"
    /\ UNCHANGED <<dry_run, table, plookup, bq_rows, warehouse, warehouse0,
                   clients, jobs, reported>>
    /\ UNCHANGED notPublish

\* SELECT ... FROM cpc WHERE symbol != 'CPC'
read_sqlite_database(rows) == SelectSeq(rows, LAMBDA r : r.symbol # sCPC)

\* lookup = read_sqlite_database(args.db_path)
ReadDatabase ==
    /\ upc = "start"
    /\ table.exists
    /\ plookup' = read_sqlite_database(table.rows)
    /\ upc' = "read"
    /\ UNCHANGED <<dry_run, table, bq_rows, warehouse, warehouse0, clients, jobs,
                   reported, uerror>>
    /\ UNCHANGED notPublish

\* The lookup dict of the fetched rows: symbol -> entry (a later row of one
\* symbol replaces an earlier one).
LookupOf(rows) ==
    [k \in KeysOf(rows) |->
        LET i == CHOOSE m \in DOMAIN rows :
                    rows[m].symbol = k /\ \A n \in DOMAIN rows : rows[n].symbol = k => n <= m
        IN  [symbol_short    |-> rows[i].symbol_short,
             symbol_patstat  |-> rows[i].symbol_patstat,
             kind            |-> rows[i].kind,
             level           |-> rows[i].level,
             parent          |-> rows[i].parent,
             parent_short    |-> rows[i].parent_short,
             title_en        |-> rows[i].title_en,
             not_allocatable |-> rows[i].not_allocatable # 0,
             additional_only |-> rows[i].additional_only # 0,
             status          |-> rows[i].status]]

\* The `while current in lookup` loop of build_title_full, run to its end.
RECURSIVE AscendTitles(_, _, _)
AscendTitles(lk, cur, ch) ==
    IF cur \notin DOMAIN lk THEN ch
    ELSE IF lk[cur].level < FromLevel THEN ch
    ELSE AscendTitles(lk, lk[cur].parent,
                      IF Truthy(lk[cur].title_en) THEN Append(ch, lk[cur].title_en) ELSE ch)

build_title_full(symbol, lk) == title_result(AscendTitles(lk, symbol, <<>>), symbol, lk)

\* The row prepared for the warehouse from one entry of the lookup.
bq_row(symbol, lk) ==
    [symbol          |-> symbol,
     symbol_short    |-> lk[symbol].symbol_short,
     symbol_patstat  |-> lk[symbol].symbol_patstat,
     kind            |-> lk[symbol].kind,
     level           |-> lk[symbol].level,
     parent          |-> lk[symbol].parent,
     parent_short    |-> lk[symbol].parent_short,
     title_en        |-> lk[symbol].title_en,
     title_full      |-> build_title_full(symbol, lk),
     not_allocatable |-> lk[symbol].not_allocatable,
     additional_only |-> lk[symbol].additional_only,
     status          |-> lk[symbol].status]

\* One iteration of `for symbol, data in lookup.items()`.
PrepareRow ==
    /\ upc = "read"
    /\ Len(bq_rows) < Len(plookup)
    /\ bq_rows' = Append(bq_rows,
                         bq_row(plookup[Len(bq_rows) + 1].symbol, LookupOf(plookup)))
    /\ UNCHANGED <<upc, dry_run, table, plookup, warehouse, warehouse0, clients,
                   jobs, reported, uerror>>
    /\ UNCHANGED notPublish

\* The dry run with a client created before the report.
UploadDryRun_with_client ==
    /\ upc = "read"
    /\ Len(bq_rows) = Len(plookup)
    /\ dry_run
    /\ clients' = clients + 1
    /\ reported' = Len(bq_rows)
    /\ upc' = "done"
    /\ UNCHANGED <<dry_run, table, plookup, bq_rows, warehouse, warehouse0,
                   jobs, uerror>>
    /\ UNCHANGED notPublish

\* upload_to_bigquery(bq_rows, dry_run=True): print the count and a sample.
UploadDryRun ==
    /\ upc = "read"
    /\ Len(bq_rows) = Len(plookup)
    /\ dry_run
    /\ reported' = Len(bq_rows)
    /\ upc' = "done"
    /\ UNCHANGED <<dry_run, table, plookup, bq_rows, warehouse, warehouse0,
                   clients, jobs, uerror>>
    /\ UNCHANGED notPublish

\* client = get_bigquery_client(PROJECT_ID): default credentials, or the
\* service account of .env, or ValueError when there are neither.
CreateClient ==
    /\ upc = "read"
    /\ Len(bq_rows) = Len(plookup)
    /\ ~dry_run
    /\ \E credentials \in {"gcloud", "env", "none"} :
         IF credentials = "none"
         THEN /\ upc' = "failed"
              /\ uerror' = "ValueError"
              /\ UNCHANGED clients
         ELSE /\ upc' = "client"
              /\ clients' = clients + 1
              /\ UNCHANGED uerror
    /\ UNCHANGED <<dry_run, table, plookup, bq_rows, warehouse, warehouse0,
                   jobs, reported>>
    /\ UNCHANGED notPublish

\* job = client.load_table_from_json(bq_rows, TABLE_ID, WRITE_TRUNCATE);
\* job.result(): the external table is replaced by the rows when the job
\* succeeds, and is left as it was when job.result() raises.
LoadTable ==
    /\ upc = "client"
    /\ jobs' = jobs + 1
    /\ \E loaded \in BOOLEAN :
         IF loaded
         THEN /\ warehouse' = bq_rows
              /\ reported' = Len(bq_rows)
              /\ upc' = "done"
              /\ UNCHANGED uerror
         ELSE /\ upc' = "failed"
              /\ uerror' = "LoadError"
              /\ UNCHANGED <<warehouse, reported>>
    /\ UNCHANGED <<dry_run, table, plookup, bq_rows, warehouse0, clients>>
    /\ UNCHANGED notPublish

InitPublish ==
    /\ BuildIdle /\ RunIdle /\ CodecIdle /\ TitleIdle
    /\ KindIdle /\ ExtractIdle /\ PublishInit /\ SessionIdle /\ BranchIdle /\ FormIdle

NextPublish ==
    \/ NoDatabase
    \/ ReadDatabase
    \/ PrepareRow
    \/ UploadDryRun
    \/ CreateClient
    \/ LoadTable

SpecPublish == InitPublish /\ [][NextPublish]_vars

-----------------------------------------------------------------------------
(* The parent resolution of the build loop over symbol lists in            *)
(* hierarchical sort order that hold several subclasses and main groups.   *)

\* Rows of one symbol list.
MaxBranchRows == 10

sG304 == <<"A", "0", "1", "B", "3", "/", "0", "4">>
sC100 == <<"A", "0", "1", "C", "1", "/", "0", "0">>
sC102 == <<"A", "0", "1", "C", "1", "/", "0", "2">>

\* Two subclasses, three main groups, subgroups one and two levels below.
BranchRows ==
    { Row(sA,    <<"2">>, "FALSE"),
      Row(sA01,  <<"4">>, "FALSE"),
      Row(sA01B, <<"5">>, "FALSE"),
      Row(sG100, <<"7">>, "FALSE"),
      Row(sG102, <<"8">>, "FALSE"),
      Row(sG104, <<"9">>, "FALSE"),
      Row(sG300, <<"7">>, "FALSE"),
      Row(sG302, <<"8">>, "FALSE"),
      Row(sG304, <<"9">>, "FALSE"),
      Row(sA01C, <<"5">>, "FALSE"),
      Row(sC100, <<"7">>, "FALSE"),
      Row(sC102, <<"8">>, "FALSE") }

BranchInit ==
    /\ dsymbols = <<>>
    /\ dnodes = <<>>
    /\ dlast = <<>>

\* One iteration of `for row in symbols`, up to the update of last_at_level:
\* the next row of a list in hierarchical sort order that holds no symbol
\* twice.
DeriveRow ==
    /\ Len(dsymbols) < MaxBranchRows
    /\ \E row \in BranchRows :
        LET lv == ParseInt(row.level).val IN
        /\ \A k \in DOMAIN dsymbols : dsymbols[k].SYMBOL # row.SYMBOL
        /\ Ordered(Append(dsymbols, row))
        /\ dsymbols' = Append(dsymbols, row)
        /\ dnodes' = Append(dnodes, row_node(row, lv, dlast))
        /\ dlast' = record_last(dlast, lv, Strip(row.SYMBOL))
    /\ UNCHANGED notBranch

InitBranch ==
    /\ BuildIdle /\ RunIdle /\ CodecIdle /\ TitleIdle
    /\ KindIdle /\ ExtractIdle /\ PublishIdle /\ SessionIdle /\ BranchInit /\ FormIdle

NextBranch == DeriveRow

SpecBranch == InitBranch /\ [][NextBranch]_vars

-----------------------------------------------------------------------------
(* The dashboard session: st.session_state and the functions of app.py     *)
(* that write it.  A value of the session is written Some(v); None is the  *)
(* Python None.  A key is in the session or not (DOMAIN session_state).    *)

\* Calls made on one session.
MaxCalls == 2

None == <<>>
Some(v) == <<v>>

DEFAULT_YEAR_START == 2015
DEFAULT_YEAR_END == 2024
DEFAULT_JURISDICTIONS == <<"EP", "US", "CN">>
DEFAULT_TECH_FIELD == None

\* The keys app.py keeps in the session, in the order init_session_state
\* goes through them.
SessionKeys ==
    <<"current_page", "selected_query", "selected_category", "year_start",
      "year_end", "jurisdictions", "tech_field">>

\* The values a key holds in the sessions of this model.
SessionValues(key) ==
    CASE key = "current_page"      -> {Some("landing"), Some("detail")}
      [] key = "selected_query"    -> {None, Some("Q01"), Some("")}
      [] key = "selected_category" -> {None, Some("Trends")}
      [] key = "year_start"        -> {Some(2015), Some(2010)}
      [] key = "year_end"          -> {Some(2024), Some(2020)}
      [] key = "jurisdictions"     -> {Some(<<"EP", "US", "CN">>), Some(<<"JP", "KR">>)}
      [] key = "tech_field"        -> {None, Some(13)}

\* st.session_state[key] = value
Put(ss, key, value) ==
    [k \in DOMAIN ss \cup {key} |-> IF k = key THEN value ELSE ss[k]]

\* if key not in st.session_state: st.session_state[key] = value
PutIfAbsent(ss, key, value) == IF key \in DOMAIN ss THEN ss ELSE Put(ss, key, value)

\* Every session over the first n keys: each key absent or with a value.
RECURSIVE SessionsOver(_)
SessionsOver(n) ==
    IF n = 0 THEN {<<>>}
    ELSE LET rest == SessionsOver(n - 1) IN
         rest \cup {Put(ss, SessionKeys[n], v) : ss \in rest, v \in SessionValues(SessionKeys[n])}

Sessions == SessionsOver(Len(SessionKeys))

\* init_session_state with year_start set whether it is there or not.
init_session_state_overwrites(ss) ==
    LET s1 == PutIfAbsent(ss, "current_page", Some("landing"))
        s2 == PutIfAbsent(s1, "selected_query", None)
        s3 == PutIfAbsent(s2, "selected_category", None)
        s4 == Put(s3, "year_start", Some(DEFAULT_YEAR_START))
        s5 == PutIfAbsent(s4, "year_end", Some(DEFAULT_YEAR_END))
        s6 == PutIfAbsent(s5, "jurisdictions", Some(DEFAULT_JURISDICTIONS))
    IN  PutIfAbsent(s6, "tech_field", DEFAULT_TECH_FIELD)

\* The session after init_session_state().
init_session_state(ss) ==
    LET s1 == PutIfAbsent(ss, "current_page", Some("landing"))
        s2 == PutIfAbsent(s1, "selected_query", None)
        s3 == PutIfAbsent(s2, "selected_category", None)
        s4 == PutIfAbsent(s3, "year_start", Some(DEFAULT_YEAR_START))
        s5 == PutIfAbsent(s4, "year_end", Some(DEFAULT_YEAR_END))
        s6 == PutIfAbsent(s5, "jurisdictions", Some(DEFAULT_JURISDICTIONS))
    IN  PutIfAbsent(s6, "tech_field", DEFAULT_TECH_FIELD)

\* go_to_landing with the category cleared as well.
go_to_landing_clears_category(ss) ==
    LET s1 == Put(ss, "current_page", Some("landing"))
        s2 == Put(s1, "selected_query", None)
        s3 == Put(s2, "selected_category", None)
        s4 == Put(s3, "year_start", Some(DEFAULT_YEAR_START))
        s5 == Put(s4, "year_end", Some(DEFAULT_YEAR_END))
        s6 == Put(s5, "jurisdictions", Some(DEFAULT_JURISDICTIONS))
    IN  Put(s6, "tech_field", DEFAULT_TECH_FIELD)

\* go_to_landing that clears the query and stays on the page.
go_to_landing_keeps_page(ss) ==
    LET s2 == Put(ss, "selected_query", None)
        s3 == Put(s2, "year_start", Some(DEFAULT_YEAR_START))
        s4 == Put(s3, "year_end", Some(DEFAULT_YEAR_END))
        s5 == Put(s4, "jurisdictions", Some(DEFAULT_JURISDICTIONS))
    IN  Put(s5, "tech_field", DEFAULT_TECH_FIELD)

\* The session after the assignments of go_to_landing().
go_to_landing(ss) ==
    LET s1 == Put(ss, "current_page", Some("landing"))
        s2 == Put(s1, "selected_query", None)
        s3 == Put(s2, "year_start", Some(DEFAULT_YEAR_START))
        s4 == Put(s3, "year_end", Some(DEFAULT_YEAR_END))
        s5 == Put(s4, "jurisdictions", Some(DEFAULT_JURISDICTIONS))
    IN  Put(s5, "tech_field", DEFAULT_TECH_FIELD)

SessionInit ==
    /\ session_state \in Sessions
    /\ before = session_state
    /\ called = "none"
    /\ calls = 0
    /\ reruns = 0
    /\ query_id = None
    /\ client = "unset"
    /\ rendered = "none"
    /\ page = "idle"

\* init_session_state()
InitSessionState ==
    /\ calls < MaxCalls
    /\ page = "idle"
    /\ before' = session_state
    /\ session_state' = init_session_state(session_state)
    /\ called' = "init_session_state"
    /\ calls' = calls + 1
    /\ reruns' = 0
    /\ UNCHANGED <<query_id, client, rendered, page>>
    /\ UNCHANGED notSession

\* go_to_landing(): the assignments, then st.rerun()
GoToLanding ==
    /\ calls < MaxCalls
    /\ page = "idle"
    /\ before' = session_state
    /\ session_state' = go_to_landing(session_state)
    /\ called' = "go_to_landing"
    /\ calls' = calls + 1
    /\ reruns' = 1
    /\ UNCHANGED <<query_id, client, rendered, page>>
    /\ UNCHANGED notSession

\* The keys of QUERIES, the catalogue app.py imports from queries_bq, and
\* the ids go_to_detail is called with.
QUERIES == {"Q01", "Q05"}
QueryIds == QUERIES \cup {"INVALID_QUERY", ""}

CATEGORIES == <<"Competitors", "Trends", "Regional", "Technology">>

\* st.session_state.get(key)
Get(ss, key) == IF key \in DOMAIN ss THEN ss[key] ELSE None

\* if value: for a value that is None or a string
IsSet(value) == value # None /\ value # Some("")

\* go_to_detail without the check of query_id.
go_to_detail_unvalidated(ss, id) ==
    Put(Put(ss, "current_page", Some("detail")), "selected_query", Some(id))

\* go_to_detail that selects the query and stays on the page.
go_to_detail_keeps_page(ss, id) ==
    IF id \notin QUERIES THEN ss
    ELSE Put(ss, "selected_query", Some(id))

\* The session after go_to_detail(id).
go_to_detail(ss, id) ==
    IF id \notin QUERIES THEN ss
    ELSE Put(Put(ss, "current_page", Some("detail")), "selected_query", Some(id))

\* st.rerun() calls of go_to_detail(id).
go_to_detail_reruns(id) == IF id \notin QUERIES THEN 0 ELSE 1

\* go_to_detail(id)
GoToDetail ==
    /\ calls < MaxCalls
    /\ page = "idle"
    /\ \E id \in QueryIds :
        /\ query_id' = Some(id)
        /\ session_state' = go_to_detail(session_state, id)
        /\ reruns' = go_to_detail_reruns(id)
    /\ before' = session_state
    /\ called' = "go_to_detail"
    /\ calls' = calls + 1
    /\ UNCHANGED <<client, rendered, page>>
    /\ UNCHANGED notSession

\* The routing of main() that looks at current_page alone.
route_by_page_alone(ss) ==
    IF Get(ss, "current_page") = Some("detail")
    THEN [session |-> ss, rendered |-> "detail"]
    ELSE [session |-> ss, rendered |-> "landing"]

\* The routing of main(): the session it leaves and the page function it
\* calls.
route(ss) ==
    IF Get(ss, "current_page") = Some("detail")
    THEN IF IsSet(Get(ss, "selected_query"))
         THEN [session |-> ss, rendered |-> "detail"]
         ELSE [session |-> Put(ss, "current_page", Some("landing")),
               rendered |-> "landing"]
    ELSE [session |-> ss, rendered |-> "landing"]

\* main() up to the call of the page function: init_session_state(),
\* get_bigquery_client(), which returns a client or raises (it has no
\* return of None, so the st.stop() branch is not taken), then the routing.
Main ==
    /\ calls < MaxCalls
    /\ page = "idle"
    /\ before' = session_state
    /\ called' = "main"
    /\ calls' = calls + 1
    /\ reruns' = 0
    /\ \E created \in {"client", "raised"} :
        /\ client' = created
        /\ IF created = "raised"
           THEN /\ session_state' = init_session_state(session_state)
                /\ rendered' = "none"
                /\ page' = "idle"
           ELSE LET r == route(init_session_state(session_state)) IN
                /\ session_state' = r.session
                /\ rendered' = r.rendered
                /\ page' = r.rendered
    /\ UNCHANGED query_id
    /\ UNCHANGED notSession

\* render_landing_page(): the category pills, then the query buttons, of
\* which at most one is clicked in a run.
RenderLandingPage ==
    /\ page = "landing"
    /\ \E selected \in {None, Some(CATEGORIES[2]), Some(CATEGORIES[3])},
          clicked \in {None} \cup {Some(q) : q \in QUERIES} :
        LET s1 == IF selected # Get(session_state, "selected_category")
                  THEN Put(session_state, "selected_category", selected)
                  ELSE session_state
        IN  IF clicked = None
            THEN /\ session_state' = s1
                 /\ reruns' = 0
                 /\ UNCHANGED query_id
            ELSE /\ session_state' = go_to_detail(s1, clicked[1])
                 /\ reruns' = go_to_detail_reruns(clicked[1])
                 /\ query_id' = clicked
    /\ before' = session_state
    /\ called' = "render_landing_page"
    /\ page' = "idle"
    /\ UNCHANGED <<calls, client, rendered>>
    /\ UNCHANGED notSession

\* st.session_state.get(key, default)
GetOr(ss, key, default) == IF key \in DOMAIN ss THEN ss[key] ELSE default

\* The values the widgets of render_parameter_block() return: what the
\* session holds (the default for a key it does not hold), or what the user
\* has set.
ParameterChoices(ss) ==
    { [year_start    |-> GetOr(ss, "year_start", Some(DEFAULT_YEAR_START)),
       year_end      |-> GetOr(ss, "year_end", Some(DEFAULT_YEAR_END)),
       jurisdictions |-> GetOr(ss, "jurisdictions", Some(DEFAULT_JURISDICTIONS)),
       tech_field    |-> GetOr(ss, "tech_field", DEFAULT_TECH_FIELD)],
      [year_start |-> Some(2010), year_end |-> Some(2020),
       jurisdictions |-> Some(<<"JP", "KR">>), tech_field |-> Some(13)] }

\* render_parameter_block(): st.session_state[...] = the widgets' values
render_parameter_block(ss, w) ==
    LET s1 == Put(ss, "year_start", w.year_start)
        s2 == Put(s1, "year_end", w.year_end)
        s3 == Put(s2, "jurisdictions", w.jurisdictions)
    IN  Put(s3, "tech_field", w.tech_field)

\* render_detail_page(query_id): the back button, the check of query_id,
\* then the parameter block.
RenderDetailPage ==
    /\ page = "detail"
    /\ \E back \in BOOLEAN, w \in ParameterChoices(session_state) :
        LET query == Get(session_state, "selected_query") IN
        IF back
        THEN /\ session_state' = go_to_landing(session_state)
             /\ reruns' = 1
        ELSE IF query = None \/ query[1] \notin QUERIES
        THEN /\ session_state' = session_state
             /\ reruns' = 0
        ELSE /\ session_state' = render_parameter_block(session_state, w)
             /\ reruns' = 0
    /\ before' = session_state
    /\ called' = "render_detail_page"
    /\ page' = "idle"
    /\ UNCHANGED <<calls, client, rendered, query_id>>
    /\ UNCHANGED notSession

InitSession ==
    /\ BuildIdle /\ RunIdle /\ CodecIdle /\ TitleIdle
    /\ KindIdle /\ ExtractIdle /\ PublishIdle /\ SessionInit /\ BranchIdle /\ FormIdle

NextSession ==
    \/ InitSessionState
    \/ GoToLanding
    \/ GoToDetail
    \/ Main
    \/ RenderLandingPage
    \/ RenderDetailPage

SpecSession == InitSession /\ [][NextSession]_vars

\* A fresh session, initialized by init_session_state().
AppInit ==
    /\ session_state = init_session_state(<<>>)
    /\ before = <<>>
    /\ called = "init_session_state"
    /\ calls = 0
    /\ reruns = 0
    /\ query_id = None
    /\ client = "unset"
    /\ rendered = "none"
    /\ page = "idle"

InitApp ==
    /\ BuildIdle /\ RunIdle /\ CodecIdle /\ TitleIdle
    /\ KindIdle /\ ExtractIdle /\ PublishIdle /\ AppInit /\ BranchIdle /\ FormIdle

\* The dashboard from a fresh session.
SpecApp == InitApp /\ [][NextSession]_vars

-----------------------------------------------------------------------------
(* The analysis form of tip4patlibs_core: AnalysisState and the widgets of  *)
(* WidgetFactory.  A widget is modelled by the traits the callbacks read or *)
(* write; `widget.observe(callback, names='value')` makes an assignment to  *)
(* the value trait call the callback, before the assignment returns, when   *)
(* the new value differs from the old one.  The callbacks run one at a      *)
(* time.  The text of the summary panel and of the performance tip, which   *)
(* nothing reads back, is left out.                                         *)

\* Widget events handled on one form.
MaxEvents == 4

\* AnalysisState's default years.
DefaultYearStart == 2019
DefaultYearEnd == 2023

\* The jurisdictions offered, and the NUTS regions the database holds for each.
Jurisdictions == {"DE", "FR", "MT"}
NutsRegions(code) ==
    IF code = "DE" THEN <<Some("DE2")>>
    ELSE IF code = "FR" THEN <<Some("FR1")>>
    ELSE <<>>

\* The values of the technology dropdown: the placeholder, a sector header,
\* a field.
SectorHeader == -1
TechValues == {None, Some(SectorHeader), Some(5)}

\* The positions of the year slider tried.
YearRanges == {<<DefaultYearStart, DefaultYearEnd>>, <<2010, DefaultYearEnd>>}

\* Texts typed into the IPC input.
tA61B == <<"a", "6", "1", "b", ",", " ", "H", "0", "1", "L">>
tBad == <<"z", "z">>
tMixed == <<"A", "6", "1", ",", "X", "9">>
tSix == <<"A", "0", "1", ",", "B", "0", "1", ",", "C", "0", "1", ",",
          "D", "0", "1", ",", "E", "0", "1", ",", "F", "0", "1">>
tBlank == <<" ", ",">>
IpcTexts == {<<>>, tA61B, tBad, tMixed, tSix, tBlank}

\* The keys _on_run_click writes.
ResultKeys == {"trend", "applicants", "tech_breakdown", "regional"}

\* AnalysisState.is_valid()
is_valid(u) ==
    IF u.country = None
    THEN [ok |-> FALSE, message |-> "Please select a country"]
    ELSE IF u.tech_mode = "field"
    THEN IF u.tech_field = None
         THEN [ok |-> FALSE, message |-> "Please select a technology field"]
         ELSE [ok |-> TRUE, message |-> "Ready"]
    ELSE IF u.ipc_codes = <<>>
         THEN [ok |-> FALSE, message |-> "Please enter at least one IPC/CPC code"]
         ELSE [ok |-> TRUE, message |-> "Ready"]

\* WidgetFactory._update_run_button_state
_update_run_button_state(u) ==
    IF ~u.review THEN u
    ELSE IF is_valid(u).ok
    THEN [u EXCEPT !.run_disabled = FALSE, !.validation_message = ""]
    ELSE [u EXCEPT !.run_disabled = TRUE, !.validation_message = is_valid(u).message]

\* WidgetFactory._on_region_change
_on_region_change(u, new) ==
    _update_run_button_state([u EXCEPT !.region = new])

\* self._region_dropdown.value = value, with _on_region_change observing.
SetRegionValue(u, value) ==
    IF u.region_value = value THEN u
    ELSE _on_region_change([u EXCEPT !.region_value = value], value)

\* self._region_dropdown.options = options: the selection moves to the
\* first option.
SetRegionOptions(u, options) ==
    IF u.region_options = options THEN u
    ELSE SetRegionValue([u EXCEPT !.region_options = options], options[1])

\* `not jurisdiction`
NoJurisdiction(jurisdiction) == jurisdiction = None \/ jurisdiction = Some("")

\* if self._region_helper: self._region_helper.value = text
SetHelper(u, text) ==
    IF u.helper_exists THEN [u EXCEPT !.region_helper = text] ELSE u

\* A refresh that lists the regions and leaves the selection as it is.
_refresh_region_dropdown_keeps_selection(u, regions) ==
    IF ~u.region_exists THEN u
    ELSE IF NoJurisdiction(u.country) \/ regions = <<>>
    THEN [u EXCEPT !.region_options = <<None>>, !.region_disabled = TRUE]
    ELSE [u EXCEPT !.region_options = <<None>> \o regions, !.region_disabled = FALSE]

\* WidgetFactory._refresh_region_dropdown; `regions` is what
\* load_regions_for_jurisdiction(get_db(), jurisdiction) returned, or [] when
\* either call raised.
_refresh_region_dropdown(u, regions) ==
    IF ~u.region_exists THEN u
    ELSE IF NoJurisdiction(u.country)
    THEN SetHelper([SetRegionValue(SetRegionOptions(u, <<None>>), None)
                        EXCEPT !.region_disabled = TRUE],
                   "")
    ELSE IF regions # <<>>
    THEN [SetHelper([SetRegionValue(SetRegionOptions(u, <<None>> \o regions), None)
                         EXCEPT !.region_disabled = FALSE],
                    "")
              EXCEPT !.region = None]
    ELSE [SetHelper([SetRegionValue(SetRegionOptions(u, <<None>>), None)
                         EXCEPT !.region_disabled = TRUE],
                    "Regional data not available for this jurisdiction")
              EXCEPT !.region = None]

\* WidgetFactory._on_jurisdiction_change
_on_jurisdiction_change(u, new, regions) ==
    LET u1 == [u EXCEPT !.country = new]
        u2 == IF u1.region_exists THEN _refresh_region_dropdown(u1, regions) ELSE u1
    IN _update_run_button_state(u2)

\* WidgetFactory._on_tech_field_change
_on_tech_field_change(u, new) ==
    IF new # None /\ new # Some(SectorHeader)
    THEN _update_run_button_state([u EXCEPT !.tech_field = new, !.tech_mode = "field"])
    ELSE u

LowerLetters == <<"a", "b", "c", "d", "e", "f", "g", "h", "i", "j", "k", "l", "m",
                  "n", "o", "p", "q", "r", "s", "t", "u", "v", "w", "x", "y", "z">>
UpperLetters == <<"A", "B", "C", "D", "E", "F", "G", "H", "I", "J", "K", "L", "M",
                  "N", "O", "P", "Q", "R", "S", "T", "U", "V", "W", "X", "Y", "Z">>

\* The other letters up to U+00FF that str.upper() changes, and what it puts
\* in their place: a capital of the same range for U+00E0..U+00FE, two
\* letters for the sharp s, and for the micro sign and the y with diaeresis a
\* capital beyond U+00FF, written here by its code point.
LowerLatin == <<"à", "á", "â", "ã", "ä", "å", "æ", "ç", "è", "é", "ê", "ë", "ì",
                "í", "î", "ï", "ð", "ñ", "ò", "ó", "ô", "õ", "ö", "ø", "ù", "ú",
                "û", "ü", "ý", "þ", "ß", "µ", "ÿ">>
UpperLatin == << <<"À">>, <<"Á">>, <<"Â">>, <<"Ã">>, <<"Ä">>, <<"Å">>, <<"Æ">>,
                 <<"Ç">>, <<"È">>, <<"É">>, <<"Ê">>, <<"Ë">>, <<"Ì">>, <<"Í">>,
                 <<"Î">>, <<"Ï">>, <<"Ð">>, <<"Ñ">>, <<"Ò">>, <<"Ó">>, <<"Ô">>,
                 <<"Õ">>, <<"Ö">>, <<"Ø">>, <<"Ù">>, <<"Ú">>, <<"Û">>, <<"Ü">>,
                 <<"Ý">>, <<"Þ">>, <<"S", "S">>, <<"U+039C">>, <<"U+0178">> >>

\* c.upper(), for one character: the text it gives
UpperChar(c) ==
    IF \E k \in DOMAIN LowerLetters : LowerLetters[k] = c
    THEN <<UpperLetters[CHOOSE k \in DOMAIN LowerLetters : LowerLetters[k] = c]>>
    ELSE IF \E k \in DOMAIN LowerLatin : LowerLatin[k] = c
    THEN UpperLatin[CHOOSE k \in DOMAIN LowerLatin : LowerLatin[k] = c]
    ELSE <<c>>

\* s.upper()
RECURSIVE Upper(_)
Upper(s) == IF s = <<>> THEN <<>> ELSE UpperChar(Head(s)) \o Upper(Tail(s))

\* c.strip().upper()
StripUpper(c) == Upper(Strip(c))

\* pattern.match(c) for r'^[A-H]\d{2}[A-Z]?$'; `$` also matches before a
\* line feed that ends the text.
IpcPattern(c) ==
    LET code == IF c # <<>> /\ c[Len(c)] = "\n" THEN SubSeq(c, 1, Len(c) - 1) ELSE c
    IN  /\ Len(code) \in {3, 4}
        /\ code[1] \in {"A", "B", "C", "D", "E", "F", "G", "H"}
        /\ IsDigit(code[2])
        /\ IsDigit(code[3])
        /\ Len(code) = 4 => code[4] \in {UpperLetters[k] : k \in DOMAIN UpperLetters}

NotBlank(c) == Strip(c) # <<>>
NoIpcPattern(c) == ~IpcPattern(c)

\* The codes at most are kept.
MaxIpcCodes == 5

\* WidgetFactory._validate_ipc_codes; the message is named by its wording,
\* without the counts.
_validate_ipc_codes(input_text) ==
    IF input_text = <<>> \/ Strip(input_text) = <<>>
    THEN [valid_codes |-> <<>>, is_valid |-> FALSE, message |-> ""]
    ELSE
    LET parts == SelectSeq(Split(input_text, ","), NotBlank)
        codes == [k \in DOMAIN parts |-> StripUpper(parts[k])]
        matching == SelectSeq(codes, IpcPattern)
        invalid_codes == SelectSeq(codes, NoIpcPattern)
        truncated == Len(matching) > MaxIpcCodes
        valid_codes == Prefix(matching, MaxIpcCodes)
    IN IF codes = <<>>
       THEN [valid_codes |-> <<>>, is_valid |-> FALSE, message |-> ""]
       ELSE IF invalid_codes # <<>> /\ valid_codes = <<>>
       THEN [valid_codes |-> <<>>, is_valid |-> FALSE, message |-> "Invalid format"]
       ELSE IF invalid_codes # <<>>
       THEN [valid_codes |-> valid_codes, is_valid |-> TRUE, message |-> "valid, invalid"]
       ELSE IF truncated
       THEN [valid_codes |-> valid_codes, is_valid |-> TRUE, message |-> "Maximum 5 codes"]
       ELSE [valid_codes |-> valid_codes, is_valid |-> TRUE, message |-> "Valid"]

\* WidgetFactory._on_ipc_input_change
_on_ipc_input_change(u, input_text) ==
    LET v == _validate_ipc_codes(input_text)
        u1 == IF v.is_valid
              THEN [u EXCEPT !.ipc_codes = v.valid_codes, !.tech_mode = "ipc"]
              ELSE [u EXCEPT !.ipc_codes = <<>>]
        u2 == IF u1.section THEN [u1 EXCEPT !.ipc_feedback = v.message] ELSE u1
    IN _update_run_button_state(u2)

\* WidgetFactory._on_tech_mode_change
_on_tech_mode_change(u, new_mode) ==
    IF new_mode = "Custom IPC/CPC"
    THEN LET u1 == IF u.section
                   THEN [u EXCEPT !.tech_shown = FALSE, !.ipc_shown = TRUE]
                   ELSE u
         IN _update_run_button_state(
                [u1 EXCEPT !.tech_mode = "ipc", !.tech_field = None])
    ELSE LET u1 == IF u.section
                   THEN [u EXCEPT !.tech_shown = TRUE, !.ipc_shown = FALSE]
                   ELSE u
         IN _update_run_button_state(
                [u1 EXCEPT !.tech_mode = "field", !.ipc_codes = <<>>])

\* WidgetFactory._on_year_range_change
_on_year_range_change(u, new_range) ==
    _update_run_button_state(
        [u EXCEPT !.year_start = new_range[1], !.year_end = new_range[2]])

\* WidgetFactory._on_sme_change
_on_sme_change(u, new) ==
    _update_run_button_state([u EXCEPT !.sme_filter = new])

\* `value`, computed once, handed to `Rest`.
Bind(value, Rest(_)) == CHOOSE result \in {Rest(bound) : bound \in {value}} : TRUE

\* WidgetFactory._on_reset_click: the state first, then widget after widget,
\* each assignment calling the widget's observer when it changes the value.
_on_reset_click(u) ==
    Bind([u EXCEPT !.country = None, !.region = None, !.tech_mode = "field",
                   !.tech_field = None, !.ipc_codes = <<>>,
                   !.year_start = DefaultYearStart, !.year_end = DefaultYearEnd,
                   !.sme_filter = FALSE],
         LAMBDA u0 :
    Bind(IF u0.jurisdiction_value # None
         THEN _on_jurisdiction_change(
                  [u0 EXCEPT !.jurisdiction_value = None], None, <<>>)
         ELSE u0,
         LAMBDA u1 :
    Bind(IF u1.region_exists
         THEN SetHelper([SetRegionValue(SetRegionOptions(u1, <<None>>), None)
                             EXCEPT !.region_disabled = TRUE],
                        "")
         ELSE u1,
         LAMBDA u2 :
    Bind(IF u2.section
         THEN [(IF u2.tech_value # None
                THEN _on_tech_field_change([u2 EXCEPT !.tech_value = None], None)
                ELSE u2)
                   EXCEPT !.tech_shown = TRUE]
         ELSE u2,
         LAMBDA u3 :
    Bind(IF u3.section
         THEN [(IF u3.ipc_value # <<>>
                THEN _on_ipc_input_change([u3 EXCEPT !.ipc_value = <<>>], <<>>)
                ELSE u3)
                   EXCEPT !.ipc_shown = FALSE, !.ipc_feedback = ""]
         ELSE u3,
         LAMBDA u4 :
    Bind(IF u4.section /\ u4.toggle_value # "Tech Field"
         THEN _on_tech_mode_change(
                  [u4 EXCEPT !.toggle_value = "Tech Field"], "Tech Field")
         ELSE u4,
         LAMBDA u5 :
    Bind(IF u5.date_section /\ u5.year_value # <<DefaultYearStart, DefaultYearEnd>>
         THEN _on_year_range_change(
                  [u5 EXCEPT !.year_value = <<DefaultYearStart, DefaultYearEnd>>],
                  <<DefaultYearStart, DefaultYearEnd>>)
         ELSE u5,
         LAMBDA u6 :
    Bind(IF u6.review /\ u6.sme_value
         THEN _on_sme_change([u6 EXCEPT !.sme_value = FALSE], FALSE)
         ELSE u6,
         LAMBDA u7 : _update_run_button_state(u7)))))))))

\* AnalysisState() and the widgets as their constructors leave them.  The
\* technology widgets come from create_technology_section (`section`), which
\* hides the IPC input, or one by one, all visible; the region dropdown
\* exists or not, and so does the helper text under it; the year slider comes
\* from create_date_range_section (`date_section`), which registers it with
\* the factory, or from year_range_slider() alone; the review section is
\* created later.
NewForm(section, region_exists, helper_exists, date_section) ==
    [country |-> None, region |-> None, tech_mode |-> "field", tech_field |-> None,
     ipc_codes |-> <<>>, year_start |-> DefaultYearStart, year_end |-> DefaultYearEnd,
     sme_filter |-> FALSE,
     jurisdiction_value |-> None,
     region_exists |-> region_exists, region_options |-> <<None>>,
     region_value |-> None, region_disabled |-> TRUE,
     helper_exists |-> helper_exists, region_helper |-> "",
     section |-> section, toggle_value |-> "Tech Field",
     tech_value |-> None, tech_shown |-> TRUE,
     ipc_value |-> <<>>, ipc_shown |-> ~section, ipc_feedback |-> "",
     date_section |-> date_section,
     year_value |-> <<DefaultYearStart, DefaultYearEnd>>,
     review |-> FALSE, sme_value |-> FALSE,
     run_disabled |-> FALSE, run_description |-> "", validation_message |-> ""]

FormInit ==
    /\ \E section \in BOOLEAN, region_exists \in BOOLEAN, helper_exists \in BOOLEAN,
          date_section \in BOOLEAN :
           ui = NewForm(section, region_exists, helper_exists, date_section)
    /\ patstat_db = None
    /\ analysis_results = <<>>
    /\ run_pc = "idle"
    /\ ended = "none"
    /\ outcome = "returned"
    /\ events = 0
    /\ region_before = None

\* A callback has run from its first line to its return.
Handled(callback) ==
    /\ ended' = callback
    /\ outcome' = "returned"
    /\ events' = events + 1
    /\ region_before' = ui.region
    /\ UNCHANGED <<patstat_db, analysis_results, run_pc>>
    /\ UNCHANGED notForm

\* The kernel is free to run a callback.
Ready == run_pc = "idle" /\ events < MaxEvents

\* init_patstat(): the session is stored, or ConnectionError leaves db None.
InitPatstat ==
    /\ run_pc = "idle"
    /\ patstat_db = None
    /\ \E connected \in BOOLEAN :
           /\ patstat_db' = IF connected THEN Some("session") ELSE None
           /\ outcome' = IF connected THEN "returned" ELSE "ConnectionError"
    /\ ended' = "init_patstat"
    /\ region_before' = ui.region
    /\ UNCHANGED <<ui, analysis_results, run_pc, events>>
    /\ UNCHANGED notForm

\* WidgetFactory.create_review_section
CreateReviewSection ==
    /\ run_pc = "idle"
    /\ ~ui.review
    /\ ui' = _update_run_button_state(
                 [ui EXCEPT !.review = TRUE, !.sme_value = FALSE,
                            !.run_description = "Run Analysis",
                            !.run_disabled = FALSE, !.validation_message = ""])
    /\ ended' = "create_review_section"
    /\ outcome' = "returned"
    /\ region_before' = ui.region
    /\ UNCHANGED <<patstat_db, analysis_results, run_pc, events>>
    /\ UNCHANGED notForm

\* What the try block of _refresh_region_dropdown can leave in `regions`:
\* get_db() raises without a session, the query returns the regions or
\* raises.
RegionLookups(session, jurisdiction) ==
    IF NoJurisdiction(jurisdiction) \/ session = None THEN {<<>>}
    ELSE {NutsRegions(jurisdiction[1]), <<>>}

\* The jurisdiction dropdown is moved.
JurisdictionChange ==
    /\ Ready
    /\ \E new \in {None} \cup {Some(j) : j \in Jurisdictions} :
           /\ new # ui.jurisdiction_value
           /\ \E regions \in RegionLookups(patstat_db, new) :
                  ui' = _on_jurisdiction_change(
                            [ui EXCEPT !.jurisdiction_value = new], new, regions)
    /\ Handled("_on_jurisdiction_change")

\* The region dropdown is moved.
RegionChange ==
    /\ Ready
    /\ ui.region_exists /\ ~ui.region_disabled
    /\ \E k \in DOMAIN ui.region_options :
           /\ ui.region_options[k] # ui.region_value
           /\ ui' = _on_region_change(
                        [ui EXCEPT !.region_value = ui.region_options[k]],
                        ui.region_options[k])
    /\ Handled("_on_region_change")

\* The technology dropdown is moved.
TechFieldChange ==
    /\ Ready
    /\ ui.tech_shown
    /\ \E new \in TechValues :
           /\ new # ui.tech_value
           /\ ui' = _on_tech_field_change([ui EXCEPT !.tech_value = new], new)
    /\ Handled("_on_tech_field_change")

\* The IPC input is edited.
IpcInputChange ==
    /\ Ready
    /\ ui.ipc_shown
    /\ \E input_text \in IpcTexts :
           /\ input_text # ui.ipc_value
           /\ ui' = _on_ipc_input_change([ui EXCEPT !.ipc_value = input_text], input_text)
    /\ Handled("_on_ipc_input_change")

\* The mode toggle is moved.
TechModeChange ==
    /\ Ready
    /\ \E new_mode \in {"Tech Field", "Custom IPC/CPC"} :
           /\ new_mode # ui.toggle_value
           /\ ui' = _on_tech_mode_change([ui EXCEPT !.toggle_value = new_mode], new_mode)
    /\ Handled("_on_tech_mode_change")

\* The year slider is moved.
YearRangeChange ==
    /\ Ready
    /\ \E new_range \in YearRanges :
           /\ new_range # ui.year_value
           /\ ui' = _on_year_range_change([ui EXCEPT !.year_value = new_range], new_range)
    /\ Handled("_on_year_range_change")

\* The SME checkbox is ticked or cleared.
SmeChange ==
    /\ Ready
    /\ ui.review
    /\ ui' = _on_sme_change([ui EXCEPT !.sme_value = ~ui.sme_value], ~ui.sme_value)
    /\ Handled("_on_sme_change")

\* Reset is clicked.
ResetClick ==
    /\ Ready
    /\ ui.review
    /\ ui' = _on_reset_click(ui)
    /\ Handled("_on_reset_click")

\* Run Analysis is clicked: _on_run_click up to `PatstatQueries(get_db())`,
\* where RuntimeError leaves the callback when there is no session.
RunClick ==
    /\ Ready
    /\ ui.review /\ ~ui.run_disabled
    /\ ui' = [ui EXCEPT !.run_description = "Running...", !.run_disabled = TRUE,
                        !.validation_message = "Querying PATSTAT..."]
    /\ events' = events + 1
    /\ IF patstat_db = None
       THEN /\ run_pc' = "idle"
            /\ ended' = "_on_run_click"
            /\ outcome' = "RuntimeError"
       ELSE /\ run_pc' = "queries"
            /\ UNCHANGED <<ended, outcome>>
    /\ region_before' = ui.region
    /\ UNCHANGED <<patstat_db, analysis_results>>
    /\ UNCHANGED notForm

\* What a query of _on_run_click leaves under its key: the frame returned,
\* or the empty frame of the except branch.
Stored(result) == IF result = "raised" THEN "empty" ELSE result

\* The completion message of _on_run_click, named by its wording.
Completion(trend, errors) ==
    IF errors
    THEN IF Stored(trend) = "rows" THEN "Analysis complete with errors"
         ELSE "Partial results"
    ELSE IF Stored(trend) = "rows" THEN "Analysis complete"
    ELSE "No patents found"

\* _on_run_click from the first query to its return.  get_tech_breakdown and
\* get_regional_distribution return their empty frames.  display_results,
\* called last, draws the charts and changes nothing modelled here.
RunQueries ==
    /\ run_pc = "queries"
    /\ \E trend \in {"rows", "empty", "raised"},
          applicants \in {"rows", "empty", "raised"} :
           /\ analysis_results' =
                  [k \in DOMAIN analysis_results \cup ResultKeys |->
                      IF k = "trend" THEN Stored(trend)
                      ELSE IF k = "applicants" THEN Stored(applicants)
                      ELSE "empty"]
           /\ ui' = [ui EXCEPT !.validation_message =
                                   Completion(trend, "raised" \in {trend, applicants}),
                               !.run_description = "Run Analysis",
                               !.run_disabled = FALSE]
    /\ run_pc' = "idle"
    /\ ended' = "_on_run_click"
    /\ outcome' = "returned"
    /\ region_before' = ui.region
    /\ UNCHANGED <<patstat_db, events>>
    /\ UNCHANGED notForm

InitForm ==
    /\ BuildIdle /\ RunIdle /\ CodecIdle /\ TitleIdle
    /\ KindIdle /\ ExtractIdle /\ PublishIdle /\ SessionIdle /\ BranchIdle /\ FormInit

NextForm ==
    \/ InitPatstat
    \/ CreateReviewSection
    \/ JurisdictionChange
    \/ RegionChange
    \/ TechFieldChange
    \/ IpcInputChange
    \/ TechModeChange
    \/ YearRangeChange
    \/ SmeChange
    \/ ResetClick
    \/ RunClick
    \/ RunQueries

SpecForm == InitForm /\ [][NextForm]_vars

-----------------------------------------------------------------------------
(* The build. *)

Init ==
    /\ BuildInit /\ RunIdle /\ CodecIdle /\ TitleIdle
    /\ KindIdle /\ ExtractIdle /\ PublishIdle /\ SessionIdle /\ BranchIdle /\ FormIdle

Next ==
    \/ ReadRelease
    \/ DropTable
    \/ CreateTable
    \/ InsertRoot
    \/ ProcessRow
    \/ Finish

Spec == Init /\ [][Next]_vars

\* The build as it is invoked: on a directory that may lack an artifact,
\* and again after it has finished.
NextRun ==
    \/ ReadRelease
    \/ ReadReleaseMissing
    \/ DropTable
    \/ CreateTable
    \/ InsertRoot
    \/ ProcessRow
    \/ Finish
    \/ Rerun

SpecRun == Init /\ [][NextRun]_vars

\* The build with the batch size as a parameter.
NextBatch ==
    \/ ReadRelease
    \/ DropTable
    \/ CreateTable
    \/ InsertRoot
    \/ ProcessRowBatched
    \/ Finish

SpecBatch == Init /\ [][NextBatch]_vars


-----------------------------------------------------------------------------
(* Properties of the build. *)

\* The table a finished build has committed.
Built == pc = "done"

\* The rows of the table other than the root row.
NonRoot(rows) == {k \in DOMAIN rows : rows[k].symbol # sCPC}

\* The table row whose key is `key`.
NodeOf(rows, key) == rows[CHOOSE k \in DOMAIN rows : rows[k].symbol = key]

\* Following parent links from `key` reaches the root key within `fuel` steps.
RECURSIVE ReachesRoot(_, _, _)
ReachesRoot(rows, key, fuel) ==
    IF key = sCPC THEN TRUE
    ELSE IF fuel = 0 \/ key \notin KeysOf(rows) THEN FALSE
    ELSE ReachesRoot(rows, NodeOf(rows, key).parent, fuel - 1)

\* The nodes derived from the consumed rows, in input order.
Emitted == IF pc = "done" THEN Tail(db.rows) ELSE Tail(pending) \o batch

\* C1: after a build over a symbol list in hierarchical sort order, the
\* parent of every node but the root is the key of a node of the table, and
\* that node's level is strictly less than the node's own.
C1_ParentPresentAndShallower ==
    (Built /\ Ordered(symbols)) =>
        \A k \in NonRoot(db.rows) :
            \E p \in DOMAIN db.rows :
                /\ db.rows[p].symbol = db.rows[k].parent
                /\ db.rows[p].level < db.rows[k].level

\* An ordered release with a subgroup below a subgroup and a second main group
\* after them has been built.
C1_Witness ==
    /\ Built
    /\ Ordered(symbols)
    /\ \E k \in DOMAIN db.rows : db.rows[k].level = 9
    /\ \E k \in DOMAIN db.rows : db.rows[k].symbol = symbol_to_zeropad(sG300)

\* In a table, no node but the root is its own parent, and the parent links
\* of every node lead to the root without visiting a node twice.
TreeShaped(rows) ==
    /\ \A k \in NonRoot(rows) : rows[k].parent # rows[k].symbol
    /\ \A k \in DOMAIN rows : ReachesRoot(rows, rows[k].symbol, Len(rows) - 1)

\* C2, as stated: the table of any finished build is a tree under the root.
C2_AnyBuildIsTree == Built => TreeShaped(db.rows)

\* C2, amended: the table of a finished build over a symbol list in
\* hierarchical sort order is a tree under the root: no node but the root is
\* its own parent, and the parent links of every node reach the root in at
\* most as many steps as the table has other nodes.
C2_OrderedBuildIsTree == (Built /\ Ordered(symbols)) => TreeShaped(db.rows)

\* An ordered release with both main groups and a subgroup has been built.
C2_Witness ==
    /\ Built
    /\ Ordered(symbols)
    /\ Len(symbols) >= 6
    /\ \E k \in DOMAIN db.rows : db.rows[k].level = 8


\* The loop derived a node from every consumed row: each had an integer level
\* and no class row had an empty symbol.
AllDerived ==
    \A k \in DOMAIN symbols :
        /\ ParseInt(symbols[k].level).ok
        /\ ~(RowLevel(symbols[k]) = 4 /\ RowShort(symbols[k]) = <<>>)

\* The rows before row k that carry level `level`.
SeenAt(k, level) == {j \in 1..(k - 1) : RowLevel(symbols[j]) = level}

\* The key of the row most recently seen at `level` before row k.
LastKeyAt(k, level) ==
    LET j == CHOOSE m \in SeenAt(k, level) : \A n \in SeenAt(k, level) : n <= m
    IN  symbol_to_zeropad(Strip(symbols[j].SYMBOL))

\* The chain A, A01, A01B, A01B1/00, A01B1/02.
Chain ==
    << Row(sA, <<"2">>, "FALSE"), Row(sA01, <<"4">>, "FALSE"),
       Row(sA01B, <<"5">>, "TRUE"), Row(sG100, <<"7">>, "FALSE"),
       Row(sG102, <<"8">>, "FALSE") >>

\* C3: the parent of a row follows from its level: level 2 gives the root
\* key, 4 the first character of the short symbol, 5 the first three, 7 the
\* first four, and a level beyond 7 the padded key of the symbol most
\* recently seen one level up; for A, A01, A01B, A01B1/00, A01B1/02 in that
\* order the parents are CPC, A, A01, A01B and A01B0001000000.
C3_ParentByLevel ==
    (pc \in {"loop", "done"}) =>
        /\ Len(Emitted) = Len(symbols)
        /\ \A k \in DOMAIN symbols :
            LET node == Emitted[k]
                lv   == RowLevel(symbols[k])
                sh   == RowShort(symbols[k])
            IN  /\ lv = 2 => node.parent = <<"C", "P", "C">>
                /\ lv = 4 => node.parent = <<sh[1]>>
                /\ lv = 5 => node.parent = SubSeq(sh, 1, 3)
                /\ lv = 7 => node.parent = SubSeq(sh, 1, 4)
                /\ (lv > 7 /\ SeenAt(k, lv - 1) # {}) => node.parent = LastKeyAt(k, lv - 1)
        /\ symbols = Chain =>
            [k \in 1..5 |-> Emitted[k].parent] = <<sCPC, sA, sA01, sA01B, kG100>>
        /\ (symbols = Chain /\ Built) =>
            /\ db.rows[6].symbol = kG102
            /\ db.rows[5].symbol = kG100

\* The chain has been built.
C3_Witness == Built /\ symbols = Chain

\* C4, as stated: a row whose level is none of 2, 4, 5, 7 or beyond 7 fails
\* the build: no table holding a node of such a level is produced.
C4_UnknownLevelFailsBuild ==
    Built =>
        \A k \in NonRoot(db.rows) : KnownLevel(db.rows[k].level)

\* A table holding a node of level 6 has been committed.
C4_Witness ==
    /\ Built
    /\ \E k \in NonRoot(db.rows) : db.rows[k].level = 6 /\ db.rows[k].kind = <<"-", "1">>

\* Rows i and j of the input have different short symbols and one padded key.
SameKey(i, j) ==
    /\ RowShort(symbols[i]) # RowShort(symbols[j])
    /\ symbol_to_zeropad(Strip(symbols[i].SYMBOL)) = symbol_to_zeropad(Strip(symbols[j].SYMBOL))

\* C5, as stated: input rows with different short symbols have different
\* zero-padded keys.
C5_DistinctSymbolsDistinctKeys ==
    \A i, j \in DOMAIN symbols : ~SameKey(i, j)

\* C5, amended: the zero-padded symbol is the primary key of the table: the
\* nodes of a produced table have pairwise different keys and only the root
\* row has the key CPC; a symbol list with two rows of one padded key (also
\* rows with different short symbols) does not produce a table.
C5_KeysUniqueInTable ==
    /\ Built =>
        /\ \A a, b \in DOMAIN db.rows : db.rows[a].symbol = db.rows[b].symbol => a = b
        /\ \A a \in DOMAIN db.rows : db.rows[a].symbol = sCPC => a = 1
        /\ \A i, j \in DOMAIN symbols : ~SameKey(i, j)
    /\ (pc = "failed" /\ AllDerived) => error = "IntegrityError"

\* A build over A01B1/02 and A01B1/020 has ended with IntegrityError.
C5_Witness ==
    /\ pc = "failed"
    /\ error = "IntegrityError"
    /\ \E i, j \in DOMAIN symbols : SameKey(i, j)

\* C6: a finished build holds the root row (CPC, kind r, level 1) first and
\* once, then one node per input row in input order: |input| + 1 rows; the
\* root is in the transaction before any input row is consumed.
C6_OneNodePerRowPlusRoot ==
    /\ Built =>
        /\ Len(db.rows) = Len(symbols) + 1
        /\ db.rows[1].symbol = sCPC /\ db.rows[1].kind = <<"r">> /\ db.rows[1].level = 1
        /\ Cardinality({k \in DOMAIN db.rows : db.rows[k].kind = <<"r">>}) = 1
        /\ \A k \in DOMAIN symbols :
            /\ db.rows[k + 1].symbol_short = RowShort(symbols[k])
            /\ db.rows[k + 1].level = RowLevel(symbols[k])
    /\ (pc = "loop") =>
        /\ pending # <<>> /\ pending[1] = root_node
        /\ \A k \in 2..Len(pending) : pending[k].symbol # sCPC
    /\ (pc \in {"start", "connected", "dropped", "created"}) => symbols = <<>>

\* A build over three rows, two batched and one in the last insert, is done.
C6_Witness == Built /\ Len(symbols) = 3 /\ Len(db.rows) = 4

\* C7, as stated: a build that fails leaves the earlier table as it was.
C7_FailureKeepsEarlierTable ==
    (pc = "failed" /\ prior.exists) => db = prior

\* A build over an earlier table has failed on a row in the middle.
C7_Witness ==
    /\ pc = "failed"
    /\ prior = EarlierTable
    /\ Len(symbols) >= 2
    /\ db = [exists |-> TRUE, rows |-> <<>>]


\* Row k is a subgroup row read when no row had been seen one level up.
Orphan(k) ==
    /\ RowLevel(symbols[k]) > 7
    /\ SeenAt(k, RowLevel(symbols[k]) - 1) = {}

\* No row after row k carries the level of row k.
LastAtItsLevel(k) ==
    \A j \in (k + 1)..Len(symbols) : RowLevel(symbols[j]) # RowLevel(symbols[k])

\* The consumed rows have pairwise different padded keys.
KeysDistinct ==
    \A i, j \in DOMAIN symbols :
        symbol_to_zeropad(Strip(symbols[i].SYMBOL)) = symbol_to_zeropad(Strip(symbols[j].SYMBOL))
            => i = j

\* C24: a subgroup row (level beyond 7) read when no row has been seen one
\* level up gets the first four characters of its short symbol as parent and
\* is recorded in last_at_level like any other row; the missing ancestor
\* does not fail the build: a build over rows the loop derives a node from
\* (integer levels, no class row with an empty symbol) with pairwise
\* different keys, orphans among them, does not fail.
C24_OrphanSubgroupFallsBack ==
    /\ (pc \in {"loop", "done"}) =>
        \A k \in DOMAIN symbols :
            Orphan(k) =>
                /\ Emitted[k].parent = Prefix(RowShort(symbols[k]), 4)
                /\ Emitted[k].parent_short = Prefix(RowShort(symbols[k]), 4)
                /\ RowLevel(symbols[k]) \in DOMAIN last_at_level
                /\ LastAtItsLevel(k) =>
                    last_at_level[RowLevel(symbols[k])] = Strip(symbols[k].SYMBOL)
    /\ pc = "failed" => ~(AllDerived /\ KeysDistinct)

\* A build over A01B1/02 (level 8) and then A01B1/04 (level 9), with no main
\* group before them, is done: the first has parent A01B, the second has the
\* first as parent.
C24_Witness ==
    /\ Built
    /\ Len(symbols) = 2
    /\ symbols[1] = Row(sG102, <<"8">>, "FALSE")
    /\ Orphan(1)
    /\ db.rows[2].parent = sA01B
    /\ db.rows[3].parent = kG102

\* The table one insert of all the nodes after the root row gives.
BulkInsert(stream) == executemany(<<root_node>>, DeriveAll(stream, <<>>, <<>>))

\* C13: the batched loop writes every input row once: while the loop runs,
\* the rows inserted and the rows waiting in the batch are the nodes of the
\* rows read, in order, and fewer than a full batch wait; the table of a
\* finished build is the table one insert of all nodes gives; and a build
\* that fails on a key fails as the one insert does.
C13_BatchedEqualsBulk ==
    /\ (pc = "loop") =>
        /\ Tail(pending) \o batch = DeriveAll(symbols, <<>>, <<>>)
        /\ Len(batch) < BatchSize
    /\ (pc = "done") =>
        /\ BulkInsert(symbols).ok
        /\ db.rows = BulkInsert(symbols).rows
    /\ (pc = "failed" /\ symbols # <<>> /\ AllDerived) => ~BulkInsert(symbols).ok

\* A build over exactly two full batches has finished.
C13_Witness ==
    /\ pc = "done"
    /\ runs = 0
    /\ Len(symbols) = 2 * BatchSize
    /\ Len(db.rows) = 2 * BatchSize + 1

\* C14: a second build of the unchanged release, over the table the first
\* build left, finishes with the table the first build left.
C14_RerunGivesSameTable ==
    /\ (runs = 1 /\ pc = "done") => (db = first /\ symbols = release)
    /\ (runs = 1) => pc # "failed"

\* The second build of a two-row release has finished over the first table.
C14_Witness ==
    /\ runs = 1
    /\ pc = "done"
    /\ Len(release) = 2
    /\ prior = first
    /\ Len(first.rows) = 3
    /\ db = first

FileNotFound ==
    {"FileNotFoundError: CPCSymbolList202601.csv or .zip",
     "FileNotFoundError: CPCTitleList202601.zip"}

\* C15: a build that lacks the symbol list (CSV and ZIP) or the title ZIP
\* raises FileNotFoundError with the table of the earlier build as it was,
\* no row read and nothing written; and a build that has come to the
\* database has not raised it.
C15_MissingArtifactLeavesTable ==
    /\ (pc = "failed" /\ error \in FileNotFound) =>
        /\ db = prior
        /\ symbols = <<>>
        /\ pending = <<>>
    /\ (pc \in {"connected", "dropped", "created", "loop", "done"}) =>
        error \notin FileNotFound

\* A build without the title ZIP has failed over the earlier table.
C15_Witness ==
    /\ pc = "failed"
    /\ error = "FileNotFoundError: CPCTitleList202601.zip"
    /\ prior = EarlierTable
    /\ db = EarlierTable

\* The subclass code of a short symbol.
SubclassOf(short) == Prefix(short, 4)

\* C25: over a symbol list in hierarchical sort order, the parent of every
\* subgroup row (level beyond 7) is the row last seen one level up, and it
\* is in the row's branch: it has the row's subclass and the row's main
\* group.  An entry of last_at_level left by another main group or subclass
\* is not the parent of any row.
C25_SubgroupParentInBranch ==
    \A k \in DOMAIN dsymbols :
        LET lv == RowLevel(dsymbols[k])
            sh == RowShort(dsymbols[k])
        IN  lv > 7 =>
            /\ SubclassOf(dnodes[k].parent_short) = SubclassOf(sh)
            /\ GroupPart(dnodes[k].parent_short) = GroupPart(sh)
            /\ \E j \in 1..(k - 1) :
                /\ RowLevel(dsymbols[j]) = lv - 1
                /\ RowShort(dsymbols[j]) = dnodes[k].parent_short
                /\ dnodes[j].symbol = dnodes[k].parent

\* A01B3/04 (level 9) has been read after the main group A01B1 left
\* A01B1/02 and A01B1/04 in last_at_level: its parent is A01B3/02.
C25_Witness ==
    /\ Len(dsymbols) = 9
    /\ dsymbols[5] = Row(sG102, <<"8">>, "FALSE")
    /\ dsymbols[6] = Row(sG104, <<"9">>, "FALSE")
    /\ dsymbols[9] = Row(sG304, <<"9">>, "FALSE")
    /\ dnodes[9].parent_short = sG302
    /\ dlast[9] = sG304

-----------------------------------------------------------------------------
(* Properties of build_title_full. *)

\* A lookup in which A01B, at the main-group level, is its own parent: what
\* read_sqlite_database returns after a build over the one row (A01B, 7).
SelfParentLookup ==
    (sA01B :> [level |-> 7, parent |-> sA01B, title_en |-> <<>>])

\* C8, as stated: the ascent of build_title_full is bounded: the loop is at
\* no key twice, so it runs at most once per entry of the lookup.
C8_AscentBounded == Len(visited) <= Cardinality(DOMAIN lookup)

\* The loop has gone round a node that is its own parent again and again.
C8_Witness ==
    /\ tpc = "loop"
    /\ lookup = SelfParentLookup
    /\ tsymbol = sA01B
    /\ Len(visited) = MaxAscent

\* The non-empty titles of `key` and of its ancestors while their level is
\* at or below the floor, outermost ancestor first.
RECURSIVE PathTitles(_, _, _)
PathTitles(lk, key, fuel) ==
    IF fuel = 0 \/ key \notin DOMAIN lk THEN <<>>
    ELSE IF lk[key].level < FromLevel THEN <<>>
    ELSE PathTitles(lk, lk[key].parent, fuel - 1)
         \o (IF lk[key].title_en = <<>> THEN <<>> ELSE <<lk[key].title_en>>)

\* The titles written one after the other with " > " between them.
RECURSIVE Breadcrumb(_)
Breadcrumb(parts) ==
    IF parts = <<>> THEN <<>>
    ELSE IF Len(parts) = 1 THEN parts[1]
    ELSE Breadcrumb(SubSeq(parts, 1, Len(parts) - 1)) \o <<" ", ">", " ">> \o parts[Len(parts)]

\* C9: title_full is the " > "-join, outermost ancestor first, of the
\* non-empty titles of the node and of its ancestors while their level is
\* >= 7; it holds no title of a node shallower than 7; and when there is no
\* such title it is the node's own title_en.
C9_TitleFullIsBreadcrumb ==
    (tpc = "done" /\ tsymbol \in DOMAIN lookup) =>
        LET path == PathTitles(lookup, tsymbol, Cardinality(DOMAIN lookup) + 1) IN
        /\ path # <<>> => title_full = Breadcrumb(path)
        /\ path # <<>> =>
            \A k \in DOMAIN lookup :
                lookup[k].level < FromLevel => ~Contains(title_full, TitleOfKey(k)[1])
        /\ path = <<>> => title_full = lookup[tsymbol].title_en

\* The title of a subgroup below a main group below a subclass: "M > G".
C9_Witness ==
    /\ tpc = "done"
    /\ tsymbol = kG102
    /\ DOMAIN lookup = LookupKeys
    /\ lookup[sA01B].level = 5 /\ lookup[sA01B].title_en = kTitleA01B
    /\ lookup[kG102].parent = kG100 /\ lookup[kG100].parent = sA01B
    /\ title_full = <<"M", " ", ">", " ", "G">>

-----------------------------------------------------------------------------
(* Properties of extract_titles. *)

\* The braces of a text pair up: every "}" closes a "{" before it, and no
\* "{" stays open, so every brace belongs to a bracketed annotation.
RECURSIVE BracesPair(_, _)
BracesPair(t, open) ==
    IF t = <<>> THEN open = 0
    ELSE IF t[1] = "{" THEN BracesPair(Tail(t), open + 1)
    ELSE IF t[1] = "}" THEN open > 0 /\ BracesPair(Tail(t), open - 1)
    ELSE BracesPair(Tail(t), open)

\* The title text of a SYMBOL<tab>TITLE line.
TitleField(line) == Suffix(line, IndexOf(line, "\t") + 1)

\* C18, as stated: a stored title holds no "{...}" annotation, and no brace
\* left over from an annotation of the line; no two whitespace characters in
\* a row; no whitespace at either end.
C18_TitlesNormalized ==
    (estate = "done") =>
        \A k \in DOMAIN etitles :
            LET t == etitles[k] IN
            /\ ~\E i, j \in DOMAIN t : i < j /\ t[i] = "{" /\ t[j] = "}"
            /\ (Len(Split(eline, "\t")) = 2 /\ BracesPair(TitleField(eline), 0)) =>
                (~Contains(t, "{") /\ ~Contains(t, "}"))
            /\ ~\E i \in 1..(Len(t) - 1) : t[i] \in Whitespace /\ t[i + 1] \in Whitespace
            /\ t # <<>> => (t[1] \notin Whitespace /\ t[Len(t)] \notin Whitespace)

\* The title "{a{a}}" has been stored as "}".
C18_Witness ==
    /\ estate = "done"
    /\ eline = sA01B \o <<"\t", "{", "a", "{", "a", "}", "}">>
    /\ etitles = (sA01B :> <<"}">>)

-----------------------------------------------------------------------------
(* Properties of the publish. *)

\* The rows of the local table a publish loads: all but the root row.
RowsToLoad(rows) == Cardinality({k \in DOMAIN rows : rows[k].symbol # sCPC})

\* C16: a dry run creates no warehouse client and no load job and leaves the
\* external table as it was; the row count it reports is the number of rows
\* a publish of the same table loads and reports.
C16_DryRunWritesNothing ==
    /\ dry_run => (clients = 0 /\ jobs = 0 /\ warehouse = warehouse0)
    /\ (upc = "done" /\ dry_run) => reported = RowsToLoad(table.rows)
    /\ (upc = "done" /\ ~dry_run) =>
        /\ Len(warehouse) = RowsToLoad(table.rows)
        /\ reported = RowsToLoad(table.rows)

\* A dry run over the table of a five-row release, with rows of an earlier
\* publish in the external table, has reported five rows.
C16_Witness ==
    /\ upc = "done"
    /\ dry_run
    /\ Len(table.rows) = 6
    /\ reported = 5
    /\ warehouse = StaleRows

\* C17, as stated: after a publish the external table holds the symbols of
\* the local table and no others, and every parent in it is the symbol of
\* one of its rows.
C17_ExternalEqualsLocal ==
    (upc = "done" /\ ~dry_run) =>
        /\ KeysOf(warehouse) = KeysOf(table.rows)
        /\ \A k \in DOMAIN warehouse : warehouse[k].parent \in KeysOf(warehouse)

\* A table with the root and the section A has been published over an
\* earlier publish: the external table holds A alone, its parent CPC is no
\* row of it.
C17_Witness ==
    /\ upc = "done"
    /\ ~dry_run
    /\ warehouse0 = StaleRows
    /\ KeysOf(table.rows) = {sCPC, sA}
    /\ KeysOf(warehouse) = {sA}
    /\ warehouse[1].parent = sCPC

-----------------------------------------------------------------------------
(* Properties of the session functions. *)

KeySet == {SessionKeys[k] : k \in DOMAIN SessionKeys}

\* C19: init_session_state leaves every key that is in the session with the
\* value it has, and gives every other key its default: current_page
\* 'landing', selected_query None, selected_category None, year_start 2015,
\* year_end 2024, jurisdictions [EP, US, CN], tech_field None; on a session
\* that has all the keys it changes nothing.
C19_InitWritesOnlyAbsentKeys ==
    (called = "init_session_state") =>
        /\ DOMAIN session_state = DOMAIN before \cup KeySet
        /\ \A k \in DOMAIN before : session_state[k] = before[k]
        /\ "current_page" \notin DOMAIN before => session_state["current_page"] = <<"landing">>
        /\ "selected_query" \notin DOMAIN before => session_state["selected_query"] = <<>>
        /\ "selected_category" \notin DOMAIN before => session_state["selected_category"] = <<>>
        /\ "year_start" \notin DOMAIN before => session_state["year_start"] = <<2015>>
        /\ "year_end" \notin DOMAIN before => session_state["year_end"] = <<2024>>
        /\ "jurisdictions" \notin DOMAIN before =>
            session_state["jurisdictions"] = << <<"EP", "US", "CN">> >>
        /\ "tech_field" \notin DOMAIN before => session_state["tech_field"] = <<>>
        /\ KeySet \subseteq DOMAIN before => session_state = before
        /\ reruns = 0

\* A session that held the page 'detail' and the year 2010 and nothing else
\* has been initialized: both are kept, the other keys have their defaults.
C19_Witness ==
    /\ called = "init_session_state"
    /\ before = [k \in {"current_page", "year_start"} |->
                    IF k = "current_page" THEN Some("detail") ELSE Some(2010)]
    /\ DOMAIN session_state = KeySet
    /\ session_state["current_page"] = Some("detail")
    /\ session_state["year_start"] = Some(2010)
    /\ session_state["year_end"] = Some(2024)

\* C20: after go_to_landing, whatever the session was, current_page is
\* 'landing', selected_query is None, year_start, year_end, jurisdictions and
\* tech_field have their defaults, selected_category is as it was (there
\* with its value, or not there), and st.rerun() has been called once.
C20_GoToLandingResets ==
    (called = "go_to_landing") =>
        /\ session_state["current_page"] = <<"landing">>
        /\ session_state["selected_query"] = <<>>
        /\ session_state["year_start"] = <<2015>>
        /\ session_state["year_end"] = <<2024>>
        /\ session_state["jurisdictions"] = << <<"EP", "US", "CN">> >>
        /\ session_state["tech_field"] = <<>>
        /\ "selected_category" \in DOMAIN session_state <=> "selected_category" \in DOMAIN before
        /\ "selected_category" \in DOMAIN before =>
            session_state["selected_category"] = before["selected_category"]
        /\ DOMAIN session_state \subseteq KeySet
        /\ reruns = 1

\* go_to_landing has been called on the detail page of Q01 with the
\* category Trends and changed parameters: the category is still Trends.
C20_Witness ==
    /\ called = "go_to_landing"
    /\ DOMAIN before = KeySet
    /\ before["current_page"] = Some("detail")
    /\ before["selected_query"] = Some("Q01")
    /\ before["selected_category"] = Some("Trends")
    /\ before["year_start"] = Some(2010)
    /\ before["tech_field"] = Some(13)
    /\ session_state["selected_category"] = Some("Trends")
    /\ session_state["current_page"] = Some("landing")

\* The keys go_to_detail does not write.
OtherKeys == KeySet \ {"current_page", "selected_query"}

\* The session has the same keys of ks, with the same values, as it had when
\* the last call began.
Kept(ks) ==
    \A k \in ks :
        /\ k \in DOMAIN session_state <=> k \in DOMAIN before
        /\ k \in DOMAIN before => session_state[k] = before[k]

\* C21: go_to_detail with an id that is not a key of QUERIES leaves every
\* key of the session as it was, current_page and selected_query included,
\* and does not rerun.
C21_InvalidIdChangesNothing ==
    (called = "go_to_detail" /\ query_id[1] \notin QUERIES) =>
        /\ session_state = before
        /\ reruns = 0

\* go_to_detail('INVALID_QUERY') has been called on the landing page with no
\* query selected.
C21_Witness ==
    /\ called = "go_to_detail"
    /\ query_id = <<"INVALID_QUERY">>
    /\ "current_page" \in DOMAIN before
    /\ before["current_page"] = <<"landing">>
    /\ "selected_query" \in DOMAIN before
    /\ before["selected_query"] = <<>>

\* C22: go_to_detail with a key of QUERIES sets current_page to 'detail' and
\* selected_query to that key, reruns once, and leaves selected_category and
\* the four parameter keys as they were.
C22_ValidIdOpensDetail ==
    (called = "go_to_detail" /\ query_id[1] \in QUERIES) =>
        /\ "current_page" \in DOMAIN session_state
        /\ session_state["current_page"] = <<"detail">>
        /\ "selected_query" \in DOMAIN session_state
        /\ session_state["selected_query"] = query_id
        /\ reruns = 1
        /\ Kept(OtherKeys)
        /\ DOMAIN session_state \subseteq KeySet

\* go_to_detail('Q05') has been called on the landing page with the category
\* Trends, changed parameters and Q01 selected.
C22_Witness ==
    /\ called = "go_to_detail"
    /\ query_id = <<"Q05">>
    /\ OtherKeys \subseteq DOMAIN before
    /\ before["selected_category"] = <<"Trends">>
    /\ before["year_start"] = <<2010>>
    /\ before["tech_field"] = <<13>>
    /\ "current_page" \in DOMAIN before
    /\ before["current_page"] = <<"landing">>
    /\ "selected_query" \in DOMAIN before
    /\ before["selected_query"] = <<"Q01">>

\* The session main() routes on: the one it was called with, after
\* init_session_state().
Routed == init_session_state(before)

OnDetail == Routed["current_page"] = <<"detail">>
QuerySet == Routed["selected_query"] # <<>> /\ Routed["selected_query"] # <<"">>

\* What main() does with the session it routes on.
RoutedBySession ==
    /\ rendered = "detail" <=> (OnDetail /\ QuerySet)
    /\ (OnDetail /\ ~QuerySet) =>
        /\ session_state["current_page"] = <<"landing">>
        /\ rendered = "landing"
    /\ ~OnDetail => rendered = "landing"

\* C23 as stated: main() renders the detail page exactly when current_page
\* is 'detail' and selected_query is set; on 'detail' with selected_query
\* None or empty it resets current_page to 'landing' and renders the landing
\* page; in every other state it renders the landing page.
C23_MainRoutesBySession ==
    (called = "main") => RoutedBySession

\* C23 amended: when get_bigquery_client() returns a client, main() routes
\* as stated; when it raises, main() ends after init_session_state() and
\* renders no page.
C23_MainRoutesWhenClient ==
    (called = "main") =>
        /\ client = "client" => RoutedBySession
        /\ client = "raised" => (rendered = "none" /\ session_state = Routed)

\* main() has been called with a client on current_page 'detail' and an
\* empty selected_query: it has reset the page and rendered the landing page.
C23_Witness ==
    /\ called = "main"
    /\ client = "client"
    /\ "current_page" \in DOMAIN before
    /\ before["current_page"] = <<"detail">>
    /\ "selected_query" \in DOMAIN before
    /\ before["selected_query"] = <<"">>
    /\ rendered = "landing"
    /\ session_state["current_page"] = <<"landing">>

\* C26: from a fresh session, current_page is 'landing' or 'detail', and on
\* 'detail' selected_query is a key of QUERIES.
C26_DetailHasValidQuery ==
    /\ "current_page" \in DOMAIN session_state
    /\ session_state["current_page"] \in {<<"landing">>, <<"detail">>}
    /\ session_state["current_page"] = <<"detail">> =>
        /\ "selected_query" \in DOMAIN session_state
        /\ session_state["selected_query"] \in {<<q>> : q \in QUERIES}

\* On the detail page of Q01, go_to_detail has been called with an id that
\* is not a key of QUERIES.
C26_Witness ==
    /\ called = "go_to_detail"
    /\ query_id = <<"INVALID_QUERY">>
    /\ session_state["current_page"] = <<"detail">>
    /\ session_state["selected_query"] = <<"Q01">>

-----------------------------------------------------------------------------
(* Properties of determine_kind. *)

\* C12: the kind of a row follows from its level alone, wherever the row is
\* in the stream and whatever came before it: level 2 gives s (section), 4
\* gives c (class), 5 gives u (subclass), 7 gives m (main group), and a level
\* beyond 7 gives the one digit min(level - 7, 9), never more than 9; two rows
\* of one level have one kind.
C12_KindByLevelAlone ==
    /\ Len(kkinds) = Len(klevels)
    /\ \A i \in DOMAIN klevels :
        LET lv == klevels[i] IN
        /\ lv = 2 => kkinds[i] = <<"s">>
        /\ lv = 4 => kkinds[i] = <<"c">>
        /\ lv = 5 => kkinds[i] = <<"u">>
        /\ lv = 7 => kkinds[i] = <<"m">>
        /\ lv > 7 =>
            /\ \E d \in 1..9 : kkinds[i] = <<Digit(d)>>
            /\ kkinds[i] = <<Digit(IF lv - 7 < 9 THEN lv - 7 ELSE 9)>>
    /\ \A i, j \in DOMAIN klevels :
        klevels[i] = klevels[j] => kkinds[i] = kkinds[j]

\* A row thirteen levels below the main group, then a first-depth subgroup.
C12_Witness == klevels = <<20, 8>> /\ kkinds = << <<"9">>, <<"1">> >>

-----------------------------------------------------------------------------
(* Properties of symbol_to_zeropad. *)

\* The input is a short symbol: a 4-character subclass, group digits, "/",
\* subgroup digits.
ShortWithSlash(sym) ==
    /\ ~Contains(sym, " ")
    /\ Len(sym) >= 5
    /\ \E p \in 5..Len(sym) :
        /\ sym[p] = "/"
        /\ \A q \in 1..4 : sym[q] # "/"
        /\ \A q \in 5..Len(sym) : q # p => sym[q] \in {Digit(d) : d \in 0..9}

SlashAt(sym) == CHOOSE p \in 1..Len(sym) : sym[p] = "/"

\* C10: for a short symbol with "/", the key is the 4-character subclass,
\* then the group digits after zeros up to width 4, then the subgroup digits
\* before zeros up to width 6: 14 characters for a group of up to 4 digits
\* and a subgroup of up to 6; a short symbol without "/" is returned as is.
C10_ZeropadLayout ==
    (cstate = "done") =>
        /\ (ShortWithSlash(cin) /\ SlashAt(cin) - 5 <= 4 /\ Len(cin) - SlashAt(cin) <= 6) =>
            LET p  == SlashAt(cin)
                gl == p - 5
                sl == Len(cin) - p
            IN  /\ Len(cout) = 14
                /\ \A k \in 1..4 : cout[k] = cin[k]
                /\ \A k \in 1..4 :
                    cout[4 + k] = IF k <= 4 - gl THEN "0" ELSE cin[4 + k - (4 - gl)]
                /\ \A k \in 1..6 :
                    cout[8 + k] = IF k <= sl THEN cin[p + k] ELSE "0"
        /\ (~Contains(cin, "/") /\ ~Contains(cin, " ")) => cout = cin

\* A01B1/02 has been converted to A01B0001020000.
C10_Witness == cstate = "done" /\ cin = sG102 /\ cout = kG102

\* C11: for every input symbol, space-padded or already short, the padded
\* key of its short form is the padded key of the symbol itself; the short
\* form holds no space, and shortening it again changes nothing.
C11_ZeropadOfShortIsZeropad ==
    (cstate = "done") =>
        /\ symbol_to_zeropad(symbol_to_short(cin)) = cout
        /\ ~Contains(symbol_to_short(cin), " ")
        /\ symbol_to_short(symbol_to_short(cin)) = symbol_to_short(cin)

\* The space-padded A01B  1/02 has been converted to the key of A01B1/02.
C11_Witness ==
    /\ cstate = "done"
    /\ cin = sA01B \o <<" ", " ", "1", "/", "0", "2">>
    /\ symbol_to_short(cin) = sG102
    /\ cout = kG102


-----------------------------------------------------------------------------
(* Properties of the analysis form. *)

\* The callbacks of the selection widgets and of Reset.
SelectionCallbacks ==
    {"_on_jurisdiction_change", "_on_region_change", "_on_tech_field_change",
     "_on_tech_mode_change", "_on_ipc_input_change", "_on_year_range_change",
     "_on_sme_change", "_on_reset_click"}

\* A country is selected and the active technology mode has a selection.
Runnable(u) ==
    /\ u.country # None
    /\ \/ u.tech_mode = "field" /\ u.tech_field # None
       \/ u.tech_mode = "ipc" /\ u.ipc_codes # <<>>

\* The Run button is disabled exactly when the state is not valid.
ButtonFollowsState(u) ==
    /\ is_valid(u).ok <=> Runnable(u)
    /\ u.run_disabled <=> ~is_valid(u).ok

\* A selection callback has returned, with the review section in place, and
\* nothing has run since.
AfterSelection ==
    ui.review /\ ended \in SelectionCallbacks /\ run_pc = "idle"

\* C27, as stated: once the review section exists, after every selection
\* callback the Run button is disabled exactly when is_valid() is false,
\* that is, enabled iff a country is selected and the active technology mode
\* has a selection.
C27_RunButtonFollowsValidity ==
    AfterSelection => ButtonFollowsState(ui)

\* A run click without a session has left the button disabled and a
\* selection of the placeholder or of a sector header has returned since:
\* the state is valid and the button is disabled.
C27_Witness ==
    /\ AfterSelection
    /\ ended = "_on_tech_field_change"
    /\ ui.tech_value \in {None, Some(SectorHeader)}
    /\ is_valid(ui).ok
    /\ ui.run_disabled
    /\ ui.run_description = "Running..."

\* What does hold: the button follows the state after every selection
\* callback unless a run click has been left by an exception before.
C27_FollowsUnlessRunFailed ==
    (AfterSelection /\ ui.run_description = "Run Analysis") => ButtonFollowsState(ui)

\* C28, as stated: the inactive technology mode keeps no selection: in mode
\* 'field' ipc_codes is empty, in mode 'ipc' tech_field is None.
C28_InactiveModeIsEmpty ==
    /\ ui.tech_mode = "field" => ui.ipc_codes = <<>>
    /\ ui.tech_mode = "ipc" => ui.tech_field = None

\* With the technology widgets made one by one, a field has been selected
\* after codes were typed: mode 'field' with the codes still in the state.
C28_Witness ==
    /\ ~ui.section
    /\ ended = "_on_tech_field_change"
    /\ ui.tech_mode = "field"
    /\ ui.tech_field = Some(5)
    /\ ui.ipc_codes # <<>>

\* What does hold: with the widgets of create_technology_section, which
\* shows one input at a time, the inactive mode keeps no selection.
C28_EmptyInTechnologySection ==
    ui.section => C28_InactiveModeIsEmpty

\* C29: when the region dropdown exists, every jurisdiction change ends with
\* state.region None and the dropdown's value None, whatever the region
\* lookup gave.
C29_JurisdictionChangeClearsRegion ==
    (ui.region_exists /\ ended = "_on_jurisdiction_change") =>
        (ui.region = None /\ ui.region_value = None)

\* A jurisdiction change that began with a region selected has returned.
C29_Witness ==
    /\ ui.region_exists
    /\ ended = "_on_jurisdiction_change"
    /\ region_before # None
    /\ ui.region = None
    /\ ui.region_value = None

\* The Run button is enabled and reads 'Run Analysis', and analysis_results
\* holds the four keys.
RunRestored ==
    /\ ~ui.run_disabled
    /\ ui.run_description = "Run Analysis"
    /\ ResultKeys \subseteq DOMAIN analysis_results

\* C30, as stated: when the callback of a click on Run Analysis has ended,
\* whatever failed, the button is enabled again with its description and
\* analysis_results holds the four keys.
C30_RunClickRestoresButton ==
    (ended = "_on_run_click" /\ run_pc = "idle") => RunRestored

\* A click without a session: RuntimeError has left the callback, the
\* button is disabled and reads 'Running...', no key is stored.
C30_Witness ==
    /\ ended = "_on_run_click"
    /\ run_pc = "idle"
    /\ outcome = "RuntimeError"
    /\ patstat_db = None
    /\ ui.run_disabled
    /\ ui.run_description = "Running..."
    /\ DOMAIN analysis_results = {}

\* What does hold: a click whose callback returns, whichever queries
\* raised, restores the button and stores the four keys.
C30_RestoredWhenReturned ==
    (ended = "_on_run_click" /\ run_pc = "idle" /\ outcome = "returned") => RunRestored

=============================================================================
